---------------------------- MODULE Spec2Model ----------------------------
(***************************************************************************)
(* A model of gh-md (jackchuka/gh-md): the markdown document codec         *)
(* (internal/writer, internal/parser) and the push engine (cmd/root.go:    *)
(* runPush, buildChangePlan, executeChanges, repullItem).                  *)
(*                                                                         *)
(* Text.  A Go string is modelled as a sequence of tokens.  A token is a   *)
(* TLA+ string that stands for a run of characters which no search of the  *)
(* code can split: one white-space character, one '#', a fixed marker such *)
(* as "<!-- gh-md:comment", a key such as "id:", or an opaque word (an id, *)
(* a login, a date, a word of prose).  The markers are split exactly where *)
(* the code's own searches split them ("<!-- gh-md:comment" + "\n";        *)
(* "<!-- gh-md:new-comment" ... "-->"), so strings.Index on the characters *)
(* and Index on the tokens agree.  Offsets are 0-based and slices are      *)
(* half-open, as in Go.                                                    *)
(***************************************************************************)
EXTENDS Integers, Sequences, FiniteSets, TLC

(***************************************************************************)
(* Tokens                                                                  *)
(***************************************************************************)
NL == "\n"
SP == " "
TAB == "\t"
HASH == "#"
ARROW == "-->"
DASHES == "---"

Whitespace == {SP, TAB, NL}

\* The number of ' ' characters a token contributes to calculateIndentation's
\* count (a tab counts 2): the markers hold one space after "<!--".
SpaceCount(tok) ==
    CASE tok = SP -> 1
      [] tok = TAB -> 2
      [] tok \in {"<!-- gh-md:content", "<!-- /gh-md:content",
                  "<!-- gh-md:comment", "<!-- /gh-md:comment",
                  "<!-- gh-md:new-comment", "<!-- /gh-md:new-comment",
                  "<!-- gh-md:review-thread", "<!-- /gh-md:review-thread",
                  "<!-- gh-md:review-comment", "<!-- /gh-md:review-comment"} -> 1
      [] OTHER -> 0

(***************************************************************************)
(* Go's strings package on token sequences                                 *)
(***************************************************************************)
\* A Go local variable: the expression is evaluated once and F works on
\* its value.
Local(v, F(_)) == CHOOSE r \in {F(x) : x \in {v}} : TRUE

\* s[a:b]
Slice(s, a, b) == SubSeq(s, a + 1, b)

\* s[a:]
SliceFrom(s, a) == Local(s, LAMBDA t : SubSeq(t, a + 1, Len(t)))

\* strings.Index(s, pat): the offset of the first occurrence, -1 if none.
Index(s, pat) ==
    Local(<<s, pat>>, LAMBDA a :
        Local({i \in 0..(Len(a[1]) - Len(a[2])) :
                  \A j \in 1..Len(a[2]) : a[1][i + j] = a[2][j]},
              LAMBDA hits :
                  IF hits = {} THEN -1
                  ELSE CHOOSE i \in hits : \A k \in hits : i <= k))

HasPrefix(s, pat) ==
    Local(<<s, pat>>, LAMBDA a :
        /\ Len(a[1]) >= Len(a[2])
        /\ \A j \in 1..Len(a[2]) : a[1][j] = a[2][j])

TrimPrefix(s, pat) ==
    Local(s, LAMBDA t : IF HasPrefix(t, pat) THEN SliceFrom(t, Len(pat)) ELSE t)

\* strings.TrimSpace
TrimSpace(s) ==
    Local(s, LAMBDA t :
        Local({i \in 1..Len(t) : t[i] \notin Whitespace}, LAMBDA keep :
            IF keep = {} THEN <<>>
            ELSE SubSeq(t, CHOOSE i \in keep : \A k \in keep : i <= k,
                           CHOOSE i \in keep : \A k \in keep : i >= k)))

\* strings.Split(s, "\n"): always at least one element.  The k-th line lies
\* between the (k-1)-th and the k-th line break.
SplitLines(s) ==
    Local(s, LAMBDA t :
        Local({i \in 1..Len(t) : t[i] = NL}, LAMBDA breaks :
            [k \in 1..(Cardinality(breaks) + 1) |->
                LET from == IF k = 1 THEN 0
                            ELSE CHOOSE i \in breaks :
                                    Cardinality({m \in breaks : m <= i}) = k - 1
                    to == IF k = Cardinality(breaks) + 1 THEN Len(t) + 1
                          ELSE CHOOSE i \in breaks :
                                  Cardinality({m \in breaks : m <= i}) = k
                IN SubSeq(t, from + 1, to - 1)]))

\* strings.Join(lines, "\n")
RECURSIVE JoinFrom(_, _)
JoinFrom(lines, k) ==
    IF k > Len(lines) THEN <<>>
    ELSE IF k = Len(lines) THEN lines[k]
    ELSE lines[k] \o <<NL>> \o JoinFrom(lines, k + 1)

JoinLines(lines) == Local(lines, LAMBDA ls : JoinFrom(ls, 1))

\* strings.ToUpper / strings.ToLower on the words the model uses for states
\* and directory names; every other token has no letters to change.
ToUpperTok(tok) ==
    CASE tok \in {"open", "Open", "OPEN"} -> "OPEN"
      [] tok \in {"closed", "Closed", "CLOSED"} -> "CLOSED"
      [] tok \in {"merged", "Merged", "MERGED"} -> "MERGED"
      [] OTHER -> tok

ToUpper(s) == [i \in 1..Len(s) |-> ToUpperTok(s[i])]

ToLowerTok(tok) ==
    CASE tok \in {"open", "Open", "OPEN"} -> "open"
      [] tok \in {"closed", "Closed", "CLOSED"} -> "closed"
      [] tok \in {"merged", "Merged", "MERGED"} -> "merged"
      [] OTHER -> tok

ToLower(s) == [i \in 1..Len(s) |-> ToLowerTok(s[i])]

\* strings.ToLower on a directory name (a single word).
ToLowerDir(dir) ==
    CASE dir \in {"issues", "Issues", "ISSUES"} -> "issues"
      [] dir \in {"issue", "Issue"} -> "issue"
      [] dir \in {"pulls", "Pulls", "PULLS"} -> "pulls"
      [] dir \in {"pull", "Pull"} -> "pull"
      [] dir \in {"discussions", "Discussions"} -> "discussions"
      [] dir \in {"discussion", "Discussion"} -> "discussion"
      [] OTHER -> dir

(***************************************************************************)
(* Remote items (internal/github: Issue, PullRequest, Discussion).  A      *)
(* remote item is a record                                                 *)
(*   [Kind, ID, Title, Body, State, UpdatedAt, Comments, ReviewThreads]    *)
(* where State is GitHub's enum ("OPEN", "CLOSED", "MERGED"), UpdatedAt a  *)
(* number, a comment is [ID, Author, Body, Replies] and a review thread is *)
(* [ID, Comments].  Strings (ID, Title, Body, Author) are token sequences. *)
(***************************************************************************)
ItemTypeIssue == "issue"
ItemTypePullRequest == "pull"
ItemTypeDiscussion == "discussion"

\* The creation time of every comment, as time.RFC3339 and as 2006-01-02.
CreatedStamp == "2026-01-01T00:00:00Z"
CreatedDay == "2026-01-01"

(***************************************************************************)
(* internal/writer                                                         *)
(***************************************************************************)
\* yaml.Marshal of the frontmatter struct, restricted to the keys that
\* parser.frontmatter reads back (id, updated, state).  The other keys hold
\* scalars which the YAML library quotes; no search of the parser looks
\* inside the header.  fm is [ID, Owner, Repo, Updated, State, HasState, Parent,
\* Children].
\* An IssueReferenceFrontmatter is written with its number and state, and
\* with owner and repo unless they are empty (omitempty); pad is the
\* indentation of its first line, the later lines align with its first key.
YamlReference(ref, first) ==
    first \o <<"number:", SP, ToString(ref.Number), NL>>
    \o <<SP, SP, SP, SP, SP, SP, "state:", SP>> \o ref.State \o <<NL>>
    \o (IF ref.Owner # <<>>
        THEN <<SP, SP, SP, SP, SP, SP, "owner:", SP>> \o ref.Owner \o <<NL>> ELSE <<>>)
    \o (IF ref.Repo # <<>>
        THEN <<SP, SP, SP, SP, SP, SP, "repo:", SP>> \o ref.Repo \o <<NL>> ELSE <<>>)

RECURSIVE YamlReferences(_)
YamlReferences(refs) ==
    IF Len(refs) = 0 THEN <<>>
    ELSE YamlReference(refs[1], <<SP, SP, SP, SP, "-", SP>>) \o YamlReferences(Tail(refs))

\* parent and children are omitempty: a nil parent and an empty list of
\* children leave no key.
YamlMarshal(fm) ==
    <<"id:", SP>> \o fm.ID \o <<NL>>
    \o <<"owner:", SP>> \o fm.Owner \o <<NL>>
    \o <<"repo:", SP>> \o fm.Repo \o <<NL>>
    \o (IF fm.HasState THEN <<"state:", SP>> \o fm.State \o <<NL>> ELSE <<>>)
    \o <<"updated:", SP, ToString(fm.Updated), NL>>
    \o (IF Len(fm.Parent) > 0
        THEN <<"parent:", NL>> \o YamlReference(fm.Parent[1], <<SP, SP, SP, SP, SP, SP>>)
        ELSE <<>>)
    \o (IF Len(fm.Children) > 0
        THEN <<"children:", NL>> \o YamlReferences(fm.Children)
        ELSE <<>>)

buildMarkdownWithFrontmatter(fm, title, body) ==
    <<DASHES, NL>> \o YamlMarshal(fm) \o <<DASHES, NL, NL>>
    \o <<"<!-- gh-md:content", SP, ARROW, NL>>
    \o <<HASH, SP>> \o title \o <<NL, NL>>
    \o body
    \o <<NL, "<!-- /gh-md:content", SP, ARROW, NL>>

finishMarkdown(sb) ==
    sb \o <<NL, "<!-- gh-md:new-comment", SP, ARROW, NL, NL,
            "<!-- /gh-md:new-comment", SP, ARROW, NL>>

OpenTag(tagName) ==
    CASE tagName = "comment" -> "<!-- gh-md:comment"
      [] tagName = "review-comment" -> "<!-- gh-md:review-comment"
      [] tagName = "review-thread" -> "<!-- gh-md:review-thread"

CloseTag(tagName) ==
    CASE tagName = "comment" -> "<!-- /gh-md:comment"
      [] tagName = "review-comment" -> "<!-- /gh-md:review-comment"
      [] tagName = "review-thread" -> "<!-- /gh-md:review-thread"

writeCommentHeader(tagName, id, author) ==
    <<OpenTag(tagName), NL>>
    \o <<"id:", SP>> \o id \o <<NL>>
    \o <<"author:", SP>> \o author \o <<NL>>
    \o <<"created:", SP, CreatedStamp, NL>>
    \o <<ARROW, NL>>

writeCommentBody(tagName, author, body, headingLevel) ==
    headingLevel \o <<SP, "@">> \o author \o <<SP, "(", CreatedDay, ")", NL, NL>>
    \o body
    \o <<NL, CloseTag(tagName), SP, ARROW, NL, NL>>

writeComment(c) ==
    writeCommentHeader("comment", c.ID, c.Author)
    \o writeCommentBody("comment", c.Author, c.Body, <<HASH, HASH, HASH>>)

\* The reply placeholder written after a discussion comment and inside a
\* review thread: "<!-- gh-md:new-comment reply_to: %s -->\n\n<!-- /gh-md:new-comment -->\n\n".
ReplyMarker(id) ==
    <<"<!-- gh-md:new-comment", SP, "reply_to:", SP>> \o id \o <<SP, ARROW, NL, NL,
      "<!-- /gh-md:new-comment", SP, ARROW, NL, NL>>

\* A writer that puts review comments down as plain comment blocks.
RECURSIVE writeReviewComments_asComments(_)
writeReviewComments_asComments(cs) ==
    IF Len(cs) = 0 THEN <<>>
    ELSE writeCommentHeader("comment", cs[1].ID, cs[1].Author)
         \o writeCommentBody("comment", cs[1].Author, cs[1].Body, <<HASH, HASH, HASH, HASH>>)
         \o writeReviewComments_asComments(Tail(cs))

RECURSIVE writeReviewComments(_)
writeReviewComments(cs) ==
    IF Len(cs) = 0 THEN <<>>
    ELSE <<"<!-- gh-md:review-comment", NL>>
         \o <<"id:", SP>> \o cs[1].ID \o <<NL>>
         \o <<"author:", SP>> \o cs[1].Author \o <<NL>>
         \o <<"created:", SP, CreatedStamp, NL>>
         \o <<ARROW, NL>>
         \o <<HASH, HASH, HASH, HASH, SP, "@">> \o cs[1].Author
         \o <<SP, "(", CreatedDay, ")", NL, NL>>
         \o cs[1].Body
         \o <<NL, "<!-- /gh-md:review-comment", SP, ARROW, NL, NL>>
         \o writeReviewComments(Tail(cs))

\* Path and Line of a thread are fixed ("f.go", 1); flags unresolved.
writeReviewThread(thread) ==
    <<"<!-- gh-md:review-thread", NL>>
    \o <<"id:", SP>> \o thread.ID \o <<NL>>
    \o <<"path:", SP, "f.go", NL>>
    \o <<"line:", SP, "1", NL>>
    \o <<ARROW, NL>>
    \o <<HASH, HASH, HASH, SP, "f.go:1", NL, NL>>
    \o writeReviewComments(thread.Comments)
    \o ReplyMarker(thread.ID)
    \o <<"<!-- /gh-md:review-thread", SP, ARROW, NL, NL>>

RECURSIVE writeDiscussionComment(_, _)
RECURSIVE writeDiscussionComments(_, _)
writeDiscussionComment(c, parentID) ==
    <<"<!-- gh-md:comment", NL>>
    \o <<"id:", SP>> \o c.ID \o <<NL>>
    \o <<"author:", SP>> \o c.Author \o <<NL>>
    \o (IF parentID # <<>> THEN <<"parent:", SP>> \o parentID \o <<NL>> ELSE <<>>)
    \o <<"created:", SP, CreatedStamp, NL>>
    \o <<ARROW, NL>>
    \o (IF parentID # <<>> THEN <<HASH, HASH, HASH, HASH>> ELSE <<HASH, HASH, HASH>>)
    \o <<SP, "@">> \o c.Author \o <<SP, "(", CreatedDay, ")", NL, NL>>
    \o c.Body
    \o <<NL, "<!-- /gh-md:comment", SP, ARROW, NL, NL>>
    \o ReplyMarker(c.ID)
    \o writeDiscussionComments(c.Replies, c.ID)

\* for _, reply := range c.Replies { writeDiscussionComment(sb, reply, c.ID) }
writeDiscussionComments(cs, parentID) ==
    IF Len(cs) = 0 THEN <<>>
    ELSE writeDiscussionComment(cs[1], parentID)
         \o writeDiscussionComments(Tail(cs), parentID)

RECURSIVE writeComments(_)
writeComments(cs) ==
    IF Len(cs) = 0 THEN <<>> ELSE writeComment(cs[1]) \o writeComments(Tail(cs))

RECURSIVE writeReviewThreads(_)
writeReviewThreads(ts) ==
    IF Len(ts) = 0 THEN <<>>
    ELSE writeReviewThread(ts[1]) \o writeReviewThreads(Tail(ts))

\* A reference as the frontmatter holds it: owner and repo are set only for
\* an issue of another repository.
ReferenceFrontmatter_byOwner(issue, ref) ==
    [Number |-> ref.Number, State |-> ref.State,
     Owner |-> IF ref.Owner # issue.Owner THEN ref.Owner ELSE <<>>,
     Repo |-> IF ref.Owner # issue.Owner THEN ref.Repo ELSE <<>>]

ReferenceFrontmatter(issue, ref) ==
    [Number |-> ref.Number, State |-> ref.State,
     Owner |-> IF ref.Owner # issue.Owner \/ ref.Repo # issue.Repo
               THEN ref.Owner ELSE <<>>,
     Repo |-> IF ref.Owner # issue.Owner \/ ref.Repo # issue.Repo
              THEN ref.Repo ELSE <<>>]

\* nodeToIssue / nodeToPullRequest: State: strings.ToLower(node.State)
IssueToMarkdown(issue) ==
    LET fm == [ID |-> issue.ID, Owner |-> issue.Owner, Repo |-> issue.Repo,
               Updated |-> issue.UpdatedAt,
               State |-> ToLower(<<issue.State>>), HasState |-> TRUE,
               Parent |-> [k \in 1..Len(issue.Parent) |->
                              ReferenceFrontmatter(issue, issue.Parent[k])],
               Children |-> [k \in 1..Len(issue.Children) |->
                                ReferenceFrontmatter(issue, issue.Children[k])]]
        sb == buildMarkdownWithFrontmatter(fm, issue.Title, issue.Body)
    IN finishMarkdown(
         sb \o (IF Len(issue.Comments) > 0
                THEN <<NL, DASHES, NL, NL>> \o writeComments(issue.Comments)
                ELSE <<>>))

PullRequestToMarkdown(pr) ==
    LET fm == [ID |-> pr.ID, Owner |-> pr.Owner, Repo |-> pr.Repo,
               Updated |-> pr.UpdatedAt,
               State |-> ToLower(<<pr.State>>), HasState |-> TRUE,
               Parent |-> <<>>, Children |-> <<>>]
        sb == buildMarkdownWithFrontmatter(fm, pr.Title, pr.Body)
    IN finishMarkdown(
         sb \o (IF Len(pr.Comments) > 0
                THEN <<NL, DASHES, NL, NL>> \o writeComments(pr.Comments)
                ELSE <<>>)
            \o (IF Len(pr.ReviewThreads) > 0
                THEN <<NL, HASH, HASH, SP, "Review", SP, "Threads", NL, NL>>
                     \o writeReviewThreads(pr.ReviewThreads)
                ELSE <<>>))

\* DiscussionFrontmatter has no state key.
DiscussionToMarkdown(d) ==
    LET fm == [ID |-> d.ID, Owner |-> d.Owner, Repo |-> d.Repo,
               Updated |-> d.UpdatedAt,
               State |-> <<>>, HasState |-> FALSE,
               Parent |-> <<>>, Children |-> <<>>]
        sb == buildMarkdownWithFrontmatter(fm, d.Title, d.Body)
    IN finishMarkdown(
         sb \o (IF Len(d.Comments) > 0
                THEN <<NL, DASHES, NL, NL>> \o writeDiscussionComments(d.Comments, <<>>)
                ELSE <<>>))

\* writer.WriteIssue / WritePullRequest / WriteDiscussion: the text written
\* for an item of the given kind.
ItemToMarkdown(item) ==
    CASE item.Kind = ItemTypeIssue -> IssueToMarkdown(item)
      [] item.Kind = ItemTypePullRequest -> PullRequestToMarkdown(item)
      [] item.Kind = ItemTypeDiscussion -> DiscussionToMarkdown(item)

(***************************************************************************)
(* internal/parser                                                         *)
(***************************************************************************)
\* The largest timestamp the YAML reader is asked to recognise.
TimeTokens == 0..20

\* yaml.Unmarshal into parser.frontmatter{ID, Owner, Repo, Updated, State}: one
\* "key: value" scalar per line; a key that is absent leaves the zero value
\* (the zero time is 0).  It fails on a line that is no mapping entry.
YamlKeys == {"id:", "owner:", "repo:", "state:", "updated:"}

\* Keys of the header that parser.frontmatter has no field for: their
\* values, nested mappings and lists included, are skipped.
YamlIgnoredKeys == {"parent:", "children:"}

YamlValue(lines, key) ==
    Local(lines, LAMBDA ls :
        Local({i \in 1..Len(ls) : HasPrefix(ls[i], <<key>>)}, LAMBDA at :
            IF at = {} THEN <<>>
            ELSE TrimSpace(SliceFrom(ls[CHOOSE k \in at : \A m \in at : k >= m], 1))))

YamlUnmarshal(text) ==
    Local(SplitLines(text), LAMBDA lines :
        Local(YamlValue(lines, "updated:"), LAMBDA upd :
            LET badLine == \E i \in 1..Len(lines) :
                              /\ TrimSpace(lines[i]) # <<>>
                              /\ lines[i][1] \notin YamlKeys \cup YamlIgnoredKeys
                              /\ ~ (/\ lines[i][1] = SP
                                    /\ \E j \in 1..(i - 1) :
                                          lines[j][1] \in YamlIgnoredKeys)
                badTime == /\ upd # <<>>
                           /\ ~ \E n \in TimeTokens : upd = <<ToString(n)>>
            IN [err |-> badLine \/ badTime,
                ID |-> YamlValue(lines, "id:"),
                Owner |-> YamlValue(lines, "owner:"),
                Repo |-> YamlValue(lines, "repo:"),
                State |-> YamlValue(lines, "state:"),
                Updated |-> IF upd = <<>> \/ badTime THEN 0
                            ELSE CHOOSE n \in TimeTokens : upd = <<ToString(n)>>]))

\* A header reader that takes a text without header for a text with an
\* empty one.
extractFrontmatter_lenient(content) ==
    [err |-> FALSE, fm |-> [ID |-> YamlValue(SplitLines(content), "id:"), State |-> <<>>,
                            Owner |-> <<>>, Repo |-> <<>>,
                            Updated |-> 0],
     rest |-> content]

\* extractFrontmatter: [err, fm, rest].  "---\n" is two tokens and
\* "\n---\n" three, so content[4:] is SliceFrom(content, 2) and
\* content[4+endIndex+5:] is SliceFrom(content, 2 + endIndex + 3).
extractFrontmatter(content) ==
    Local(content, LAMBDA c :
        IF ~ HasPrefix(c, <<DASHES, NL>>)
        THEN [err |-> TRUE, fm |-> [ID |-> <<>>, Owner |-> <<>>, Repo |-> <<>>,
                                        State |-> <<>>, Updated |-> 0],
              rest |-> <<>>]
        ELSE Local(Index(SliceFrom(c, 2), <<NL, DASHES, NL>>), LAMBDA endIndex :
                 IF endIndex = -1
                 THEN [err |-> TRUE, fm |-> [ID |-> <<>>, Owner |-> <<>>, Repo |-> <<>>,
                                        State |-> <<>>, Updated |-> 0],
                       rest |-> <<>>]
                 ELSE Local(YamlUnmarshal(Slice(c, 2, 2 + endIndex)), LAMBDA y :
                          [err |-> y.err,
                           fm |-> [ID |-> y.ID, Owner |-> y.Owner, Repo |-> y.Repo,
                                   State |-> y.State, Updated |-> y.Updated],
                           rest |-> SliceFrom(c, 2 + endIndex + 3)])))

contentStart == <<"<!-- gh-md:content", SP, ARROW>>
contentEnd == <<"<!-- /gh-md:content", SP, ARROW>>

\* A reader that takes the first line of the region for the title, heading
\* or not.
extractTitleAndBody_anyLine(content) ==
    Local(<<content, Index(content, contentStart), Index(content, contentEnd)>>, LAMBDA v :
        IF v[2] = -1 \/ v[3] = -1 \/ v[3] <= v[2] THEN <<<<>>, <<>>>>
        ELSE Local(SplitLines(TrimSpace(Slice(v[1], v[2] + Len(contentStart), v[3]))),
                   LAMBDA ls : <<TrimPrefix(ls[1], <<HASH, SP>>),
                                 TrimSpace(JoinFrom(ls, 2))>>))

\* extractTitleAndBody: <<title, body>>
extractTitleAndBody(content) ==
    Local(<<content, Index(content, contentStart), Index(content, contentEnd)>>, LAMBDA v :
        LET startIdx == v[2]
            endIdx == v[3]
        IN IF startIdx = -1 \/ endIdx = -1 \/ endIdx <= startIdx
           THEN <<<<>>, <<>>>>
           ELSE Local(TrimSpace(Slice(v[1], startIdx + Len(contentStart), endIdx)),
                      LAMBDA editableContent :
                    Local(Index(editableContent, <<NL>>), LAMBDA newlineIdx :
                        IF ~ HasPrefix(editableContent, <<HASH, SP>>)
                        THEN <<<<>>, editableContent>>
                        ELSE IF newlineIdx = -1
                        THEN <<TrimPrefix(editableContent, <<HASH, SP>>), <<>>>>
                        ELSE <<TrimPrefix(Slice(editableContent, 0, newlineIdx),
                                          <<HASH, SP>>),
                               TrimSpace(SliceFrom(editableContent, newlineIdx + 1))>>)))

\* A vocabulary compared as written, lower case only.
ItemTypeFromDirName_exact(dir) ==
    CASE dir \in {"issue", "issues"} -> ItemTypeIssue
      [] dir \in {"pull", "pulls"} -> ItemTypePullRequest
      [] dir \in {"discussion", "discussions"} -> ItemTypeDiscussion
      [] OTHER -> ""

\* github.ItemTypeFromDirName applied to the name of the file's directory
\* (detectItemType); "" when the name is not in the vocabulary.
ItemTypeFromDirName(dir) ==
    LET d == ToLowerDir(dir)
    IN CASE d \in {"issue", "issues"} -> ItemTypeIssue
         [] d \in {"pull", "pulls"} -> ItemTypePullRequest
         [] d \in {"discussion", "discussions"} -> ItemTypeDiscussion
         [] OTHER -> ""

\* A start marker without the line break that ends it.
commentStart_prefix == <<"<!-- gh-md:comment">>

commentStart == <<"<!-- gh-md:comment", NL>>
commentEnd == <<"<!-- /gh-md:comment", SP, ARROW>>
newCommentEnd == <<"<!-- /gh-md:new-comment", SP, ARROW>>

\* calculateIndentation(content, pos): the spaces (a tab counts 2) between
\* the start of the line and pos, halved.
RECURSIVE CountSpaces(_, _, _)
CountSpaces(content, i, pos) ==
    IF i >= pos THEN 0
    ELSE SpaceCount(content[i + 1]) + CountSpaces(content, i + 1, pos)

calculateIndentation(content, pos) ==
    Local(<<content, pos>>, LAMBDA v :
        Local({i \in 1..v[2] : v[1][i] = NL}, LAMBDA breaks :
            LET lineStart == IF breaks = {} THEN 0
                             ELSE CHOOSE i \in breaks : \A k \in breaks : i >= k
            IN CountSpaces(v[1], lineStart, v[2]) \div 2))

\* extractCommentBody(content)
extractCommentBody(content) ==
    Local(SplitLines(TrimSpace(content)), LAMBDA lines :
        Local({i \in 1..Len(lines) :
                  HasPrefix(TrimSpace(lines[i]), <<HASH, HASH, HASH>>)}, LAMBDA heads :
            LET startIdx == IF heads = {} THEN 0
                            ELSE CHOOSE i \in heads : \A k \in heads : i <= k
            IN IF startIdx >= Len(lines) THEN <<>>
               ELSE TrimSpace(JoinLines(SubSeq(lines, startIdx + 1, Len(lines))))))

\* The value of a metadata key in a comment block: the last line that
\* starts with the key (after trimming) wins; an "id:" line is never read
\* as author or parent because the branches are tried in order.
MetaValue(metaLines, key) ==
    Local(metaLines, LAMBDA ls :
        Local({i \in 1..Len(ls) : HasPrefix(TrimSpace(ls[i]), <<key>>)}, LAMBDA at :
            IF at = {} THEN <<>>
            ELSE TrimSpace(TrimPrefix(
                     TrimSpace(ls[CHOOSE k \in at : \A m \in at : k >= m]), <<key>>))))

\* parseCommentBlock(block): [nil, panic, comment].  block[bodyStart:bodyEndIdx]
\* panics (slice bounds out of range) when the first "-->" of the block is
\* the one that closes it.
NoComment == [ID |-> <<>>, Author |-> <<>>, Body |-> <<>>, ParentID |-> <<>>]

parseCommentBlock(block) ==
    Local(<<block, Index(block, <<ARROW>>), Index(block, commentEnd)>>, LAMBDA v :
        LET metaEndIdx == v[2]
            bodyStart == metaEndIdx + 1
            bodyEndIdx == v[3]
        IN IF metaEndIdx = -1 THEN [nil |-> TRUE, panic |-> FALSE, comment |-> NoComment]
           ELSE IF bodyEndIdx = -1
           THEN [nil |-> TRUE, panic |-> FALSE, comment |-> NoComment]
           ELSE IF bodyStart > bodyEndIdx
           THEN [nil |-> FALSE, panic |-> TRUE, comment |-> NoComment]
           ELSE Local(SplitLines(TrimSpace(Slice(v[1], Len(commentStart), metaEndIdx))),
                      LAMBDA metaLines :
                    [nil |-> FALSE, panic |-> FALSE,
                     comment |-> [ID |-> MetaValue(metaLines, "id:"),
                                  Author |-> MetaValue(metaLines, "author:"),
                                  Body |-> extractCommentBody(
                                              Slice(v[1], bodyStart, bodyEndIdx)),
                                  ParentID |-> MetaValue(metaLines, "parent:")]]))

\* parseMarkerComments(content): the loop over remaining/offset; each element
\* is [comment, depth, position, panic].
RECURSIVE parseMarkerLoop(_, _, _)
parseMarkerLoop(content, remaining, offset) ==
    Local(<<remaining, offset, Index(remaining, commentStart)>>, LAMBDA v :
        LET startIdx == v[3]
        IN IF startIdx = -1 THEN <<>>
           ELSE Local(Index(SliceFrom(v[1], startIdx), commentEnd), LAMBDA rel :
                    IF rel = -1 THEN <<>>
                    ELSE Local(parseCommentBlock(
                                   Slice(v[1], startIdx, rel + startIdx + Len(commentEnd))),
                               LAMBDA pb :
                             LET endIdx == rel + startIdx
                                 here == IF pb.nil THEN <<>>
                                         ELSE <<[comment |-> pb.comment,
                                                 depth |-> calculateIndentation(
                                                               content, v[2] + startIdx),
                                                 position |-> v[2] + startIdx,
                                                 panic |-> pb.panic]>>
                             IN here \o parseMarkerLoop(content,
                                           SliceFrom(v[1], endIdx + Len(commentEnd)),
                                           v[2] + endIdx + Len(commentEnd)))))

parseMarkerComments(content) == Local(content, LAMBDA c : parseMarkerLoop(c, c, 0))

\* parseNewCommentMarkers(content).  position is startIdx * 1000, startIdx
\* being relative to the text that remains.  openingTag[replyIdx+9:] is
\* SliceFrom(openingTag, replyIdx + 1): "reply_to:" is one token.
ReplyTo(openingTag) ==
    Local(<<openingTag, Index(openingTag, <<"reply_to:">>)>>, LAMBDA v :
        IF v[2] = -1 THEN <<>>
        ELSE Local(SliceFrom(v[1], v[2] + 1), LAMBDA afterReplyTo :
                 LET endOfValue == IF Index(afterReplyTo, <<ARROW>>) = -1
                                   THEN Len(afterReplyTo)
                                   ELSE Index(afterReplyTo, <<ARROW>>)
                 IN TrimSpace(Slice(afterReplyTo, 0, endOfValue))))

\* A placeholder that yields a comment whatever its body.
NewCommentEntry_keepEmpty(body, openingTag, startIdx) ==
    <<[comment |-> [ID |-> <<>>, Author |-> <<>>, Body |-> body,
                    ParentID |-> ReplyTo(openingTag)],
       depth |-> 0, position |-> startIdx * 1000, panic |-> FALSE]>>

\* if body != "" { result = append(result, commentWithDepth{...}) }
NewCommentEntry(body, openingTag, startIdx) ==
    IF body # <<>>
    THEN <<[comment |-> [ID |-> <<>>, Author |-> <<>>, Body |-> body,
                         ParentID |-> ReplyTo(openingTag)],
            depth |-> 0, position |-> startIdx * 1000, panic |-> FALSE]>>
    ELSE <<>>

RECURSIVE parseNewCommentLoop(_)
parseNewCommentLoop(remaining) ==
    Local(<<remaining, Index(remaining, <<"<!-- gh-md:new-comment">>)>>, LAMBDA v :
        LET startIdx == v[2]
        IN IF startIdx = -1 THEN <<>>
           ELSE Local(Index(SliceFrom(v[1], startIdx), <<ARROW>>), LAMBDA relTag :
                    IF relTag = -1 THEN <<>>
                    ELSE Local(Index(SliceFrom(v[1], relTag + startIdx), newCommentEnd),
                               LAMBDA relClose :
                             IF relClose = -1 THEN <<>>
                             ELSE LET tagEndIdx == relTag + startIdx
                                      closeIdx == relClose + tagEndIdx
                                      openingTag == Slice(v[1], startIdx, tagEndIdx + 1)
                                      bodyStart == tagEndIdx + 1
                                  IN Local(TrimSpace(Slice(v[1], bodyStart, closeIdx)),
                                           LAMBDA body :
                                         NewCommentEntry(body, openingTag, startIdx)
                                         \o parseNewCommentLoop(
                                               SliceFrom(v[1], closeIdx + Len(newCommentEnd)))))))

parseNewCommentMarkers(content) == parseNewCommentLoop(content)

\* A depth table that is never cleared below the comment it records.
StackAfter_keepDeeper(depthStack, comment, depth) ==
    IF comment.ID # <<>>
    THEN [d \in DOMAIN depthStack \cup {depth} |->
             IF d = depth THEN comment.ID ELSE depthStack[d]]
    ELSE depthStack

\* The depth table after a comment is processed: depthStack[depth] = ID and
\* delete(depthStack, d) for depth < d < 10, when the comment has an ID.
StackAfter(depthStack, comment, depth) ==
    IF comment.ID # <<>>
    THEN LET kept == {d \in DOMAIN depthStack : ~ (d >= depth + 1 /\ d < 10)} \cup {depth}
         IN [d \in kept |-> IF d = depth THEN comment.ID ELSE depthStack[d]]
    ELSE depthStack

\* A parent assignment that goes by indentation alone.
ParentFor_byDepth(depthStack, comment, depth) ==
    IF depth > 0
    THEN LET cands == {d \in 0..(depth - 1) :
                          d \in DOMAIN depthStack /\ depthStack[d] # <<>>}
         IN IF cands = {} THEN <<>>
            ELSE depthStack[CHOOSE d \in cands : \A k \in cands : d >= k]
    ELSE comment.ParentID

\* The ParentID a comment gets: its own when set or at depth 0, otherwise the
\* entry of the nearest shallower depth that holds a non-empty ID.
ParentFor(depthStack, comment, depth) ==
    IF depth > 0 /\ comment.ParentID = <<>>
    THEN LET cands == {d \in 0..(depth - 1) :
                          d \in DOMAIN depthStack /\ depthStack[d] # <<>>}
         IN IF cands = {} THEN <<>>
            ELSE depthStack[CHOOSE d \in cands : \A k \in cands : d >= k]
    ELSE comment.ParentID

\* assignParentIDs(commentsWithDepth)
RECURSIVE assignLoop(_, _, _)
assignLoop(cwds, k, depthStack) ==
    IF k > Len(cwds) THEN <<>>
    ELSE Local(<<depthStack,
                 [cwds[k].comment EXCEPT
                     !.ParentID = ParentFor(depthStack, cwds[k].comment, cwds[k].depth)]>>,
               LAMBDA v :
                   <<v[2]>> \o assignLoop(cwds, k + 1, StackAfter(v[1], v[2], cwds[k].depth)))

assignParentIDs(commentsWithDepth) ==
    Local(commentsWithDepth, LAMBDA cwds : assignLoop(cwds, 1, <<>>))

\* parseComments(content)
parseComments(content) ==
    assignParentIDs(parseMarkerComments(content) \o parseNewCommentMarkers(content))

\* parseContent(content, path): [err, panic, ID, Updated, State, Title, Body,
\* ItemType, Comments].  dir is the name of the directory that holds the file.
parseContent(content, dir) ==
    Local(extractFrontmatter(content), LAMBDA fr :
        IF fr.err
        THEN [err |-> TRUE, panic |-> FALSE, ID |-> <<>>, Owner |-> <<>>, Repo |-> <<>>,
              Updated |-> 0, State |-> <<>>,
              Title |-> <<>>, Body |-> <<>>, ItemType |-> "", Comments |-> <<>>]
        ELSE Local(<<extractTitleAndBody(fr.rest), parseMarkerComments(fr.rest)>>,
                   LAMBDA v :
                 [err |-> FALSE,
                  panic |-> \E i \in 1..Len(v[2]) : v[2][i].panic,
                  ID |-> fr.fm.ID, Owner |-> fr.fm.Owner, Repo |-> fr.fm.Repo,
                  Updated |-> fr.fm.Updated, State |-> fr.fm.State,
                  Title |-> v[1][1], Body |-> v[1][2],
                  ItemType |-> ItemTypeFromDirName(dir),
                  Comments |-> parseComments(fr.rest)]))

(***************************************************************************)
(* internal/github: what the push reads from and does to the remote item   *)
(***************************************************************************)
\* FetchRemoteState: UpdatedAt and State ("" for a discussion).
FetchRemoteState(item) ==
    [UpdatedAt |-> item.UpdatedAt,
     State |-> IF item.Kind = ItemTypeDiscussion THEN <<>> ELSE <<item.State>>]

\* FetchComments: the (ID, Body) pairs, discussion replies flattened after
\* their parent.
RECURSIVE FlattenDiscussion(_)
FlattenDiscussion(cs) ==
    IF Len(cs) = 0 THEN <<>>
    ELSE <<[ID |-> cs[1].ID, Body |-> cs[1].Body]>>
         \o [i \in 1..Len(cs[1].Replies) |->
                [ID |-> cs[1].Replies[i].ID, Body |-> cs[1].Replies[i].Body]]
         \o FlattenDiscussion(Tail(cs))

FetchComments(item) ==
    IF item.Kind = ItemTypeDiscussion THEN FlattenDiscussion(item.Comments)
    ELSE [i \in 1..Len(item.Comments) |->
             [ID |-> item.Comments[i].ID, Body |-> item.Comments[i].Body]]

(***************************************************************************)
(* cmd/root.go: the change plan                                            *)
(***************************************************************************)
\* A faulty normalizeBody that compares the bodies as they are.
normalizeBody_raw(body) == body

normalizeBody(body) == TrimSpace(body)

\* A faulty planner that switches on the local state as written, without
\* strings.ToUpper.
PlanStateChange_asWritten(parsed, remoteState) ==
    IF /\ parsed.ItemType # ItemTypeDiscussion
       /\ parsed.State # <<>>
       /\ remoteState.State # <<>>
       /\ parsed.State # remoteState.State
    THEN CASE parsed.State = <<"CLOSED">> -> "close"
           [] parsed.State = <<"OPEN">> ->
                 IF remoteState.State # <<"MERGED">> THEN "reopen" ELSE ""
           [] OTHER -> ""
    ELSE ""

\* A faulty planner without the merge guard: it reopens whatever the remote
\* state is.
PlanStateChange_noGuard(parsed, remoteState) ==
    IF /\ parsed.ItemType # ItemTypeDiscussion
       /\ parsed.State # <<>>
       /\ remoteState.State # <<>>
       /\ ToUpper(parsed.State) # remoteState.State
    THEN CASE ToUpper(parsed.State) = <<"CLOSED">> -> "close"
           [] ToUpper(parsed.State) = <<"OPEN">> -> "reopen"
           [] OTHER -> ""
    ELSE ""

\* The state transition of a plan: "", "close" or "reopen".
PlanStateChange(parsed, remoteState) ==
    IF /\ parsed.ItemType # ItemTypeDiscussion
       /\ parsed.State # <<>>
       /\ remoteState.State # <<>>
       /\ ToUpper(parsed.State) # remoteState.State
    THEN CASE ToUpper(parsed.State) = <<"CLOSED">> -> "close"
           [] ToUpper(parsed.State) = <<"OPEN">> ->
                 IF remoteState.State # <<"MERGED">> THEN "reopen" ELSE ""
           [] OTHER -> ""
    ELSE ""

\* remoteMap[id]: the body of the last remote comment with that ID.
RemoteHas(remoteComments, id) ==
    \E i \in 1..Len(remoteComments) : remoteComments[i].ID = id

RemoteBody(remoteComments, id) ==
    LET at == {i \in 1..Len(remoteComments) : remoteComments[i].ID = id}
    IN remoteComments[CHOOSE i \in at : \A k \in at : i >= k].Body

IsNewComment(c) == c.ID = <<>>

\* A faulty test that also takes a comment the remote list does not hold for
\* an edited one.
IsEditedComment_orMissing(c, remoteComments) ==
    /\ c.ID # <<>>
    /\ IF RemoteHas(remoteComments, c.ID)
       THEN normalizeBody(c.Body) # normalizeBody(RemoteBody(remoteComments, c.ID))
       ELSE TRUE

IsEditedComment(c, remoteComments) ==
    /\ c.ID # <<>>
    /\ RemoteHas(remoteComments, c.ID)
    /\ normalizeBody(c.Body) # normalizeBody(RemoteBody(remoteComments, c.ID))

\* A faulty planner that diffs title and body against nothing and so finds
\* them unchanged.
buildChangePlan_diffed(parsed, remoteState, remoteComments) ==
    [titleBodyChanged |-> FALSE,
     stateChange |-> PlanStateChange(parsed, remoteState),
     newComments |-> SelectSeq(parsed.Comments, IsNewComment),
     editedComments |->
         SelectSeq(parsed.Comments, LAMBDA c : IsEditedComment(c, remoteComments))]

buildChangePlan(parsed, remoteState, remoteComments) ==
    [titleBodyChanged |-> TRUE,
     stateChange |-> PlanStateChange(parsed, remoteState),
     newComments |-> SelectSeq(parsed.Comments, IsNewComment),
     editedComments |->
         SelectSeq(parsed.Comments, LAMBDA c : IsEditedComment(c, remoteComments))]

hasChanges(plan) ==
    \/ plan.titleBodyChanged
    \/ plan.stateChange # ""
    \/ Len(plan.newComments) > 0
    \/ Len(plan.editedComments) > 0

(***************************************************************************)
(* cmd/root.go: the mutations of executeChanges.  A call is                *)
(* [op, target, title, body].                                              *)
(***************************************************************************)
\* 1. Update title/body
TitleCall(parsed) ==
    [op |-> CASE parsed.ItemType = ItemTypeIssue -> "UpdateIssue"
              [] parsed.ItemType = ItemTypePullRequest -> "UpdatePullRequest"
              [] parsed.ItemType = ItemTypeDiscussion -> "UpdateDiscussion",
     target |-> parsed.ID, title |-> parsed.Title, body |-> parsed.Body]

\* 2. Update state (issues and PRs only): "close" closes, anything else reopens.
StateCall(parsed, plan) ==
    [op |-> CASE parsed.ItemType = ItemTypeIssue ->
                    (IF plan.stateChange = "close" THEN "CloseIssue" ELSE "ReopenIssue")
              [] parsed.ItemType = ItemTypePullRequest ->
                    (IF plan.stateChange = "close" THEN "ClosePullRequest"
                     ELSE "ReopenPullRequest"),
     target |-> parsed.ID, title |-> <<>>, body |-> <<>>]

\* 3. Update existing comments
EditCall(parsed, c) ==
    [op |-> IF parsed.ItemType = ItemTypeDiscussion THEN "UpdateDiscussionComment"
            ELSE "UpdateIssueComment",
     target |-> c.ID, title |-> <<>>, body |-> c.Body]

\* A faulty routing that sends every comment with a ParentID as a reply,
\* whatever the kind of the item.
NewCall_byParent(parsed, c) ==
    IF c.ParentID # <<>>
    THEN [op |-> IF parsed.ItemType = ItemTypeDiscussion
                 THEN "AddDiscussionCommentReply" ELSE "AddReviewThreadReply",
          target |-> c.ParentID, title |-> <<>>, body |-> c.Body]
    ELSE [op |-> IF parsed.ItemType = ItemTypeDiscussion
                 THEN "AddDiscussionComment" ELSE "AddComment",
          target |-> parsed.ID, title |-> <<>>, body |-> c.Body]

\* 4. Add new comments
NewCall(parsed, c) ==
    CASE parsed.ItemType = ItemTypeDiscussion ->
            (IF c.ParentID # <<>>
             THEN [op |-> "AddDiscussionCommentReply", target |-> c.ParentID,
                   title |-> <<>>, body |-> c.Body]
             ELSE [op |-> "AddDiscussionComment", target |-> parsed.ID,
                   title |-> <<>>, body |-> c.Body])
      [] parsed.ItemType = ItemTypePullRequest ->
            (IF c.ParentID # <<>>
             THEN [op |-> "AddReviewThreadReply", target |-> c.ParentID,
                   title |-> <<>>, body |-> c.Body]
             ELSE [op |-> "AddComment", target |-> parsed.ID,
                   title |-> <<>>, body |-> c.Body])
      [] OTHER -> [op |-> "AddComment", target |-> parsed.ID,
                   title |-> <<>>, body |-> c.Body]

\* Where executeChanges goes after a step that returned no error: the next
\* remote call it makes.  A position is [at, i].
AfterNew(plan, i) ==
    IF i < Len(plan.newComments) THEN [at |-> "new", i |-> i + 1]
    ELSE [at |-> "repull", i |-> 0]

AfterEdited(plan, i) ==
    IF i < Len(plan.editedComments) THEN [at |-> "edited", i |-> i + 1]
    ELSE AfterNew(plan, 0)

\* A faulty executeChanges that goes from the state step straight to the
\* new comments.
AfterState_skipEdits(plan) == AfterNew(plan, 0)

AfterState(plan) == AfterEdited(plan, 0)

AfterTitle(parsed, plan) ==
    IF plan.stateChange # "" /\ parsed.ItemType # ItemTypeDiscussion
    THEN [at |-> "state", i |-> 0]
    ELSE AfterState(plan)

(***************************************************************************)
(* The remote side: GitHub's reaction to a mutation that succeeds          *)
(***************************************************************************)
TopLevelIDs(item) == {item.Comments[i].ID : i \in 1..Len(item.Comments)}
ThreadIDs(item) == {item.ReviewThreads[i].ID : i \in 1..Len(item.ReviewThreads)}

\* Whether GitHub can accept the call at all: a reply needs its target.
CanSucceed(item, call) ==
    CASE call.op = "AddDiscussionCommentReply" -> call.target \in TopLevelIDs(item)
      [] call.op = "AddReviewThreadReply" -> call.target \in ThreadIDs(item)
      [] OTHER -> TRUE

NewComment(item, body) ==
    [ID |-> <<"N" \o ToString(item.Created + 1)>>, Author |-> <<"me">>,
     Body |-> body, Replies |-> <<>>]

SetBody(cs, id, body) ==
    [i \in 1..Len(cs) |->
        [cs[i] EXCEPT !.Body = IF cs[i].ID = id THEN body ELSE @,
                      !.Replies = [j \in 1..Len(@) |->
                                      IF @[j].ID = id THEN [@[j] EXCEPT !.Body = body]
                                      ELSE @[j]]]]

Apply(item, call) ==
    LET t == [item EXCEPT !.UpdatedAt = @ + 1]
    IN CASE call.op \in {"UpdateIssue", "UpdatePullRequest", "UpdateDiscussion"} ->
               [t EXCEPT !.Title = call.title, !.Body = call.body]
         [] call.op \in {"CloseIssue", "ClosePullRequest"} ->
               [t EXCEPT !.State = IF @ = "MERGED" THEN @ ELSE "CLOSED"]
         [] call.op \in {"ReopenIssue", "ReopenPullRequest"} ->
               [t EXCEPT !.State = IF @ = "MERGED" THEN @ ELSE "OPEN"]
         [] call.op \in {"UpdateIssueComment", "UpdateDiscussionComment"} ->
               [t EXCEPT !.Comments = SetBody(@, call.target, call.body)]
         [] call.op \in {"AddComment", "AddDiscussionComment"} ->
               [t EXCEPT !.Comments = Append(@, NewComment(item, call.body)),
                         !.Created = @ + 1]
         [] call.op = "AddDiscussionCommentReply" ->
               [t EXCEPT !.Comments =
                            [i \in 1..Len(@) |->
                                IF @[i].ID = call.target
                                THEN [@[i] EXCEPT !.Replies =
                                         Append(@, NewComment(item, call.body))]
                                ELSE @[i]],
                         !.Created = @ + 1]
         [] call.op = "AddReviewThreadReply" ->
               [t EXCEPT !.ReviewThreads =
                            [i \in 1..Len(@) |->
                                IF @[i].ID = call.target
                                THEN [@[i] EXCEPT !.Comments =
                                         Append(@, [ID |-> <<"N" \o ToString(item.Created + 1)>>,
                                                    Author |-> <<"me">>,
                                                    Body |-> call.body])]
                                ELSE @[i]],
                         !.Created = @ + 1]

(***************************************************************************)
(* The user's editor: edits of the local file between pull and push        *)
(***************************************************************************)
Occurrences(s, pat) ==
    {i \in 0..(Len(s) - Len(pat)) : \A j \in 1..Len(pat) : s[i + j] = pat[j]}

\* The offsets of the new-comment placeholders that are still empty.
EmptyPlaceholders(text) ==
    {o \in Occurrences(text, <<"<!-- gh-md:new-comment">>) :
        LET a == o + Index(SliceFrom(text, o), <<ARROW>>)
        IN Slice(text, a + 1, a + 3) = <<NL, NL>>
           /\ HasPrefix(SliceFrom(text, a + 3), newCommentEnd)}

\* Type body on the empty line of the placeholder at offset o.
FillPlaceholder(text, o, body) ==
    LET a == o + Index(SliceFrom(text, o), <<ARROW>>)
    IN Slice(text, 0, a + 2) \o body \o SliceFrom(text, a + 2)

\* Replace the body of the comment block at offset o (the text between the
\* heading's blank line and the closing marker).
ReplaceCommentBody(text, o, body) ==
    LET h == o + Index(SliceFrom(text, o), <<")", NL, NL>>)
        e == h + Index(SliceFrom(text, h), <<NL>> \o commentEnd)
    IN Slice(text, 0, h + 3) \o body \o SliceFrom(text, e)

\* Rewrite the value of the header's "state:" key.
ReplaceState(text, st) ==
    LET k == Index(text, <<"state:", SP>>)
    IN IF k = -1 THEN text
       ELSE Slice(text, 0, k + 2) \o <<st>> \o SliceFrom(text, k + 3)

\* One sitting in the editor: the placeholders at the offsets `fills` get a
\* body and the comments at the offsets `edits` a new one, from the bottom of
\* the file upwards so that the offsets still to be used stay valid.
RECURSIVE EditAt(_, _, _)
EditAt(text, fills, edits) ==
    IF fills \cup edits = {} THEN text
    ELSE LET o == CHOOSE x \in fills \cup edits : \A y \in fills \cup edits : x >= y
         IN IF o \in fills
            THEN EditAt(FillPlaceholder(text, o, <<"new">>), fills \ {o}, edits)
            ELSE EditAt(ReplaceCommentBody(text, o, <<"edit">>), fills, edits \ {o})

(***************************************************************************)
(* The push state machine (runPush).  One step per remote call, so that a  *)
(* change made on GitHub by somebody else can fall between any two calls.  *)
(***************************************************************************)
VARIABLES
    remote,       \* the item on GitHub
    file,         \* the text of the local file
    dir,          \* the name of the directory that holds the file
    pc,           \* where runPush stands: [at, i]; at = "idle" between runs
    flags,        \* [force, dryRun] of the run
    parsed,       \* parser.ParseFile's result for the run
    remoteState,  \* FetchRemoteState's result for the run
    plan,         \* the change plan of the run
    log,          \* the mutations the run has sent, in order: [call, ok]
    outcome,      \* how the last finished run ended ("" while none has)
    budget,       \* [runs, edits, changes] made so far
    layout        \* what a run was given: the blocks of a hand-laid-out text, the
                  \* entries of a walked directory tree, the repositories of a batch

vars == <<remote, file, dir, pc, flags, parsed, remoteState, plan, log, outcome, budget,
         layout>>

MaxPushes == 2
MaxEdits == 1
MaxRemoteChanges == 1

Idle == [at |-> "idle", i |-> 0]

NoParsed ==
    [err |-> FALSE, panic |-> FALSE, ID |-> <<>>, Owner |-> <<>>, Repo |-> <<>>,
     Updated |-> 0, State |-> <<>>,
     Title |-> <<>>, Body |-> <<>>, ItemType |-> "", Comments |-> <<>>]

NoRemoteState == [UpdatedAt |-> 0, State |-> <<>>]

NoPlan ==
    [titleBodyChanged |-> FALSE, stateChange |-> "", newComments |-> <<>>,
     editedComments |-> <<>>]

NoLayout == [blocks |-> <<>>, wrapped |-> FALSE]

\* A push is a process of its own: what a finished run knew (its parse, its
\* plan, what it sent, how it ended) is kept for inspection only until the
\* file or the remote item changes again.
NoFlags == [force |-> FALSE, dryRun |-> FALSE]

ForgetRun ==
    /\ flags' = NoFlags
    /\ parsed' = NoParsed
    /\ remoteState' = NoRemoteState
    /\ plan' = NoPlan
    /\ log' = <<>>
    /\ outcome' = ""

\* The items the runs start from: one comment each; the pull request has a
\* review thread, the discussion comment has a reply.
Comment1 ==
    [ID |-> <<"C1">>, Author |-> <<"ann">>, Body |-> <<"one">>, Replies |-> <<>>]

Reply1 ==
    [ID |-> <<"R1">>, Author |-> <<"bob">>, Body |-> <<"two">>, Replies |-> <<>>]

Thread1 ==
    [ID |-> <<"T1">>,
     Comments |-> <<[ID |-> <<"V1">>, Author |-> <<"bob">>, Body |-> <<"nit">>]>>]

InitialItems ==
    {[Kind |-> ItemTypeIssue, ID |-> <<"I1">>, Title |-> <<"title">>,
      Body |-> <<"text">>, State |-> st, UpdatedAt |-> 1, Created |-> 0,
      Owner |-> <<"o">>, Repo |-> <<"r">>, Parent |-> <<>>, Children |-> <<>>,
      Comments |-> <<Comment1>>, ReviewThreads |-> <<>>] : st \in {"OPEN", "CLOSED"}}
    \cup
    {[Kind |-> ItemTypePullRequest, ID |-> <<"P1">>, Title |-> <<"title">>,
      Body |-> <<"text">>, State |-> st, UpdatedAt |-> 1, Created |-> 0,
      Owner |-> <<"o">>, Repo |-> <<"r">>, Parent |-> <<>>, Children |-> <<>>,
      Comments |-> <<Comment1>>, ReviewThreads |-> <<Thread1>>] :
         st \in {"OPEN", "CLOSED", "MERGED"}}
    \cup
    {[Kind |-> ItemTypeDiscussion, ID |-> <<"D1">>, Title |-> <<"title">>,
      Body |-> <<"text">>, State |-> "OPEN", UpdatedAt |-> 1, Created |-> 0,
      Owner |-> <<"o">>, Repo |-> <<"r">>, Parent |-> <<>>, Children |-> <<>>,
      Comments |-> <<[Comment1 EXCEPT !.Replies = <<Reply1>>]>>,
      ReviewThreads |-> <<>>]}

\* ItemType.DirName
DirName(kind) ==
    CASE kind = ItemTypeIssue -> "issues"
      [] kind = ItemTypePullRequest -> "pulls"
      [] kind = ItemTypeDiscussion -> "discussions"

\* The local file is what a pull of the item wrote.
Init ==
    /\ remote \in InitialItems
    /\ file = ItemToMarkdown(remote)
    /\ dir = DirName(remote.Kind)
    /\ pc = Idle
    /\ flags = NoFlags
    /\ parsed = NoParsed
    /\ remoteState = NoRemoteState
    /\ plan = NoPlan
    /\ log = <<>>
    /\ outcome = ""
    /\ budget = [runs |-> 0, edits |-> 0, changes |-> 0]
    /\ layout = NoLayout

\* The user edits the file and saves it: any of the empty placeholders
\* filled, any of the comments rewritten, the state kept or set.
UserEdit ==
    /\ pc = Idle
    /\ budget.edits < MaxEdits
    /\ \E fills \in SUBSET EmptyPlaceholders(file),
          edits \in SUBSET Occurrences(file, commentStart),
          st \in {"", "open", "closed"} :
             file' = EditAt(IF st = "" THEN file ELSE ReplaceState(file, st), fills, edits)
    /\ file' # file
    /\ budget' = [budget EXCEPT !.edits = @ + 1]
    /\ ForgetRun
    /\ UNCHANGED <<remote, dir, layout, pc>>

\* Somebody else changes the item on GitHub: any change advances UpdatedAt;
\* an issue or pull request that is not merged may also change state.
RemoteChange ==
    /\ budget.changes < MaxRemoteChanges
    /\ \/ remote' = [remote EXCEPT !.UpdatedAt = @ + 1]
       \/ /\ remote.Kind # ItemTypeDiscussion
          /\ remote.State # "MERGED"
          /\ remote' = [remote EXCEPT !.UpdatedAt = @ + 1,
                                      !.State = IF @ = "OPEN" THEN "CLOSED" ELSE "OPEN"]
    /\ budget' = [budget EXCEPT !.changes = @ + 1]
    /\ IF pc = Idle THEN ForgetRun
       ELSE UNCHANGED <<flags, parsed, remoteState, plan, log, outcome>>
    /\ UNCHANGED <<file, dir, layout, pc>>

\* A run that ends: back to idle with its outcome.
Finish(result) ==
    /\ pc' = Idle
    /\ outcome' = result

\* runPush up to its first remote call: ParseFile, the item type check and
\* FetchRemoteState.
PushStart ==
    /\ pc = Idle
    /\ budget.runs < MaxPushes
    /\ budget' = [budget EXCEPT !.runs = @ + 1]
    /\ log' = <<>>
    /\ plan' = NoPlan
    /\ \E p \in {parseContent(file, dir)} :
          IF p.err \/ p.panic
          THEN /\ Finish("parse error")
               /\ parsed' = NoParsed
               /\ remoteState' = NoRemoteState
          ELSE /\ parsed' = p
               /\ IF p.ItemType = ""
                  THEN /\ Finish("no item type")
                       /\ remoteState' = NoRemoteState
                  ELSE \/ /\ Finish("fetch error")
                          /\ remoteState' = NoRemoteState
                       \/ /\ remoteState' = FetchRemoteState(remote)
                          /\ pc' = [at |-> "comments", i |-> 0]
                          /\ UNCHANGED outcome
    /\ \E force \in BOOLEAN, dryRun \in BOOLEAN :
          flags' = [force |-> force, dryRun |-> dryRun]
    /\ UNCHANGED <<remote, file, dir, layout>>

\* A faulty After that also holds for equal timestamps (time.Time.Before
\* negated): a push of a freshly pulled file would be a conflict.
After_orEqual(t, u) == t >= u

\* A faulty After that never holds: no push is a conflict.
After_never(t, u) == FALSE

\* time.Time.After over the model's integer timestamps.
After(t, u) == t > u

\* A faulty run that does not look at --dry-run.
PushPlan_noDryRun ==
    /\ pc.at = "comments"
    /\ \/ /\ Finish("fetch error")
          /\ plan' = NoPlan
       \/ IF After(remoteState.UpdatedAt, parsed.Updated) /\ ~ flags.force
          THEN /\ Finish("conflict")
               /\ plan' = NoPlan
          ELSE /\ plan' = buildChangePlan(parsed, remoteState, FetchComments(remote))
               /\ IF ~ hasChanges(plan') THEN Finish("no changes")
                  ELSE pc' = [at |-> "title", i |-> 0] /\ UNCHANGED outcome
    /\ UNCHANGED <<remote, file, dir, layout, flags, parsed, remoteState, log, budget>>

\* FetchComments, the conflict check, buildChangePlan, the dry run and the
\* no-change exit.
PushPlan ==
    /\ pc.at = "comments"
    /\ \/ /\ Finish("fetch error")
          /\ plan' = NoPlan
       \/ IF After(remoteState.UpdatedAt, parsed.Updated) /\ ~ flags.force
          THEN /\ Finish("conflict")
               /\ plan' = NoPlan
          ELSE /\ plan' = buildChangePlan(parsed, remoteState, FetchComments(remote))
               /\ IF flags.dryRun THEN Finish("dry run")
                  ELSE IF ~ hasChanges(plan') THEN Finish("no changes")
                  ELSE pc' = [at |-> "title", i |-> 0] /\ UNCHANGED outcome
    /\ UNCHANGED <<remote, file, dir, layout, flags, parsed, remoteState, log, budget>>

\* One remote mutation of executeChanges: it fails (the run returns the
\* error) or takes effect (the run goes on to `next`).
Mutate(call, next) ==
    /\ \/ /\ log' = Append(log, [call |-> call, ok |-> FALSE])
          /\ Finish("push error")
          /\ UNCHANGED remote
       \/ /\ CanSucceed(remote, call)
          /\ log' = Append(log, [call |-> call, ok |-> TRUE])
          /\ remote' = Apply(remote, call)
          /\ pc' = next
          /\ UNCHANGED outcome
    /\ UNCHANGED <<file, dir, layout, flags, parsed, remoteState, plan, budget>>

ExecTitleBody ==
    /\ pc.at = "title"
    /\ Mutate(TitleCall(parsed), AfterTitle(parsed, plan))

ExecStateChange ==
    /\ pc.at = "state"
    /\ Mutate(StateCall(parsed, plan), AfterState(plan))

ExecEditedComment ==
    /\ pc.at = "edited"
    /\ Mutate(EditCall(parsed, plan.editedComments[pc.i]), AfterEdited(plan, pc.i))

ExecNewComment ==
    /\ pc.at = "new"
    /\ Mutate(NewCall(parsed, plan.newComments[pc.i]), AfterNew(plan, pc.i))

\* A faulty re-pull that writes the timestamp the item had before the push
\* touched it.
repullItem_stale(item) == ItemToMarkdown([item EXCEPT !.UpdatedAt = @ - 1])

\* repullItem: fetch the item again and write its file.
repullItem(item) == ItemToMarkdown(item)

\* The re-pull that ends a push; its failure only warns.
Repull ==
    /\ pc.at = "repull"
    /\ \/ /\ file' = repullItem(remote)
          /\ Finish("pushed")
       \/ /\ UNCHANGED file
          /\ Finish("pushed, file not synced")
    /\ UNCHANGED <<remote, dir, layout, flags, parsed, remoteState, plan, log, budget>>

Next ==
    \/ UserEdit
    \/ RemoteChange
    \/ PushStart
    \/ PushPlan
    \/ ExecTitleBody
    \/ ExecStateChange
    \/ ExecEditedComment
    \/ ExecNewComment
    \/ Repull

Spec == Init /\ [][Next]_vars

\* The same runs with every push started without --force.
NextUnforced ==
    \/ UserEdit
    \/ RemoteChange
    \/ PushStart /\ ~ flags'.force
    \/ PushPlan
    \/ ExecTitleBody
    \/ ExecStateChange
    \/ ExecEditedComment
    \/ ExecNewComment
    \/ Repull

SpecUnforced == Init /\ [][NextUnforced]_vars

(***************************************************************************)
(* buildChangePlan on its own: a parsed file, a remote state and the remote *)
(* comments are given, the plan is built.                                  *)
(***************************************************************************)
MaxPlanComments == 2

\* The remote comments the plans are built against: one body as written,
\* one with white space around it.
PlanRemoteComments ==
    <<[ID |-> <<"C1">>, Author |-> <<"ann">>, Body |-> <<"one">>, Replies |-> <<>>],
      [ID |-> <<"C2">>, Author |-> <<"bob">>, Body |-> <<SP, "two", NL>>,
       Replies |-> <<>>]>>

\* The comments a parsed file may hold: new ones (with or without a parent)
\* and ones with an ID, known to the remote or not, body the same, the same
\* up to white space, or different.
PlanBodies == {<<"one">>, <<"two", SP>>, <<"edit">>}

PlanComments ==
    {[ID |-> <<>>, Author |-> <<>>, Body |-> b, ParentID |-> par] :
        b \in PlanBodies, par \in {<<>>, <<"C1">>}}
    \cup
    {[ID |-> <<id>>, Author |-> <<"ann">>, Body |-> b, ParentID |-> <<>>] :
        id \in {"C1", "C2", "X9"}, b \in PlanBodies}

PlanCommentSeqs ==
    UNION {[1..n -> PlanComments] : n \in 0..MaxPlanComments}

PlanLocalStates == {<<>>, <<"open">>, <<"closed">>, <<"CLOSED">>, <<"merged">>}

PlanRemoteStates == {<<>>, <<"OPEN">>, <<"CLOSED">>, <<"MERGED">>}

InitPlan ==
    /\ \E kind \in {ItemTypeIssue, ItemTypePullRequest, ItemTypeDiscussion} :
          /\ remote = [Kind |-> kind, ID |-> <<"X1">>, Title |-> <<"title">>,
                       Body |-> <<"text">>, State |-> "OPEN", UpdatedAt |-> 1,
                       Created |-> 0, Comments |-> PlanRemoteComments,
                       Owner |-> <<"o">>, Repo |-> <<"r">>,
                       Parent |-> <<>>, Children |-> <<>>,
                       ReviewThreads |-> <<>>]
          /\ dir = DirName(kind)
          /\ parsed \in {[NoParsed EXCEPT !.ID = <<"X1">>, !.Updated = 1,
                                          !.Title = <<"title">>, !.Body = <<"text">>,
                                          !.ItemType = kind, !.State = st,
                                          !.Comments = cs] :
                            st \in PlanLocalStates, cs \in PlanCommentSeqs}
    /\ remoteState \in {[UpdatedAt |-> 1, State |-> rs] : rs \in PlanRemoteStates}
    /\ file = <<>>
    /\ pc = [at |-> "input", i |-> 0]
    /\ flags = NoFlags
    /\ plan = NoPlan
    /\ log = <<>>
    /\ outcome = ""
    /\ budget = [runs |-> 0, edits |-> 0, changes |-> 0]
    /\ layout = NoLayout

BuildPlan ==
    /\ pc.at = "input"
    /\ plan' = buildChangePlan(parsed, remoteState, FetchComments(remote))
    /\ pc' = [at |-> "planned", i |-> 0]
    /\ UNCHANGED <<remote, file, dir, layout, flags, parsed, remoteState, log, outcome, budget>>

NextPlan == BuildPlan

SpecPlan == InitPlan /\ [][NextPlan]_vars

(***************************************************************************)
(* The codec on its own: an item is written as a pull writes it and the    *)
(* text is parsed as a push parses it.                                     *)
(***************************************************************************)
MaxCodecComments == 2

\* Texts of GitHub titles, bodies and comments: prose, prose with blank lines
\* and white space around it, a body that opens with a heading, no text at
\* all, and prose that quotes gh-md's own markers.
PlainBodies ==
    {<<"text">>,
     <<SP, "text", NL, NL, "more", NL>>,
     <<HASH, HASH, HASH, SP, "Heading", NL, "text">>,
     <<>>}

MarkerBodies ==
    {<<"see", SP, "<!-- /gh-md:comment", SP, ARROW, SP, "here">>,
     <<"try", NL, "<!-- gh-md:new-comment", SP, ARROW, NL, "hi", NL,
       "<!-- /gh-md:new-comment", SP, ARROW>>}

CodecBodies == PlainBodies \cup MarkerBodies

\* The k-th comment of an item and its reply, with IDs of their own.
CodecComment(k, body, replies) ==
    [ID |-> <<"C" \o ToString(k)>>, Author |-> <<"ann">>, Body |-> body,
     Replies |-> replies]

CodecReply(k, body) ==
    [ID |-> <<"R" \o ToString(k)>>, Author |-> <<"bob">>, Body |-> body,
     Replies |-> <<>>]

CodecItems ==
    {[Kind |-> kind, ID |-> <<"X1">>, Title |-> <<"title">>, Body |-> body,
      State |-> "OPEN", UpdatedAt |-> 1, Created |-> 0,
      Owner |-> <<"o">>, Repo |-> <<"r">>, Parent |-> <<>>, Children |-> <<>>,
      Comments |-> [k \in 1..n |->
                       CodecComment(k, bodies[k],
                                    IF kind = ItemTypeDiscussion /\ k \in replied
                                    THEN <<CodecReply(k, bodies[k])>> ELSE <<>>)],
      ReviewThreads |-> IF kind = ItemTypePullRequest THEN <<Thread1>> ELSE <<>>] :
        kind \in {ItemTypeIssue, ItemTypePullRequest, ItemTypeDiscussion},
        body \in CodecBodies,
        n \in 0..MaxCodecComments,
        bodies \in [1..MaxCodecComments -> CodecBodies],
        replied \in SUBSET (1..MaxCodecComments)}

InitCodec ==
    /\ remote \in CodecItems
    /\ dir = DirName(remote.Kind)
    /\ file = <<>>
    /\ pc = [at |-> "item", i |-> 0]
    /\ flags = NoFlags
    /\ parsed = NoParsed
    /\ remoteState = NoRemoteState
    /\ plan = NoPlan
    /\ log = <<>>
    /\ outcome = ""
    /\ budget = [runs |-> 0, edits |-> 0, changes |-> 0]
    /\ layout = NoLayout

\* writer.WriteIssue / WritePullRequest / WriteDiscussion
WriteItem ==
    /\ pc.at = "item"
    /\ file' = ItemToMarkdown(remote)
    /\ pc' = [at |-> "written", i |-> 0]
    /\ UNCHANGED <<remote, dir, layout, flags, parsed, remoteState, plan, log, outcome, budget>>

\* parser.ParseFile; a panic of the parser leaves no document.
ParseItem ==
    /\ pc.at = "written"
    /\ \E p \in {parseContent(file, dir)} :
          /\ parsed' = IF p.err \/ p.panic THEN NoParsed ELSE p
          /\ outcome' = IF p.err \/ p.panic THEN "parse error" ELSE "parsed"
    /\ pc' = [at |-> "parsed", i |-> 0]
    /\ UNCHANGED <<remote, file, dir, layout, flags, remoteState, plan, log, budget>>

NextCodec == WriteItem \/ ParseItem

SpecCodec == InitCodec /\ [][NextCodec]_vars

(***************************************************************************)
(* The parser on texts laid out by hand: comment blocks and filled         *)
(* new-comment placeholders of a discussion, indented as an editor may     *)
(* leave them, with and without explicit parent markers.                   *)
(***************************************************************************)
MaxBlocks == 3
MaxDepth == 2

\* Every line of text moved right by pad.
RECURSIVE IndentFrom(_, _, _)
IndentFrom(text, i, pad) ==
    IF i > Len(text) THEN <<>>
    ELSE (IF i = 1 \/ text[i - 1] = NL THEN pad ELSE <<>>)
         \o <<text[i]>> \o IndentFrom(text, i + 1, pad)

\* depth levels of two spaces, or of one tab when tabbed.
IndentLines(text, depth, tabbed) ==
    IndentFrom(text, 1, IF tabbed THEN [k \in 1..depth |-> TAB]
                                   ELSE [k \in 1..(2 * depth) |-> SP])

\* text without its first line that starts with key.
DropLine(text, key) ==
    Local(<<text, Index(text, <<key>>)>>, LAMBDA v :
        IF v[2] = -1 THEN v[1]
        ELSE Slice(v[1], 0, v[2])
             \o SliceFrom(v[1], v[2] + Index(SliceFrom(v[1], v[2]), <<NL>>) + 1))

\* A block of the layout.  A comment has an "id:" line unless anonymous and
\* a "parent:" line when parent is set; a draft is a filled placeholder with
\* "reply_to:" in its opening tag when replyTo is set, and quoting says that
\* its body itself quotes a reply_to attribute.
LayoutBlocks ==
    {[kind |-> "comment", depth |-> d, parent |-> par, replyTo |-> <<>>, quoting |-> FALSE,
      anonymous |-> FALSE, tabbed |-> FALSE] :
        d \in 0..MaxDepth, par \in {<<>>, <<"C9">>}}
    \cup
    {[kind |-> "comment", depth |-> d, parent |-> <<>>, replyTo |-> <<>>, quoting |-> FALSE,
      anonymous |-> TRUE, tabbed |-> FALSE] : d \in 0..MaxDepth}
    \cup
    {[kind |-> "comment", depth |-> d, parent |-> <<>>, replyTo |-> <<>>, quoting |-> FALSE,
      anonymous |-> FALSE, tabbed |-> TRUE] : d \in 1..MaxDepth}
    \cup
    {[kind |-> "draft", depth |-> d, parent |-> <<>>, replyTo |-> rt, quoting |-> (d > 0),
      anonymous |-> TRUE, tabbed |-> FALSE] :
        d \in {0, MaxDepth}, rt \in {<<>>, <<"C8">>}}

\* A layout: the blocks in text order, inside the section wrapper
\* "<!-- gh-md:comments -->" of writer.go:100 when wrapped.
Layouts ==
    {[blocks |-> bs, wrapped |-> w] :
        bs \in UNION {[1..n -> LayoutBlocks] : n \in 0..MaxBlocks}, w \in BOOLEAN}

BlockID(k) == <<"C" \o ToString(k)>>

BlockBody(k) == <<"body" \o ToString(k)>>

DraftBody(k, b) ==
    (IF b.quoting THEN <<"reply_to:", SP, "C7", SP, ARROW, NL>> ELSE <<>>)
    \o <<"draft" \o ToString(k)>>

\* The text of the k-th block: a comment as writeDiscussionComment writes it
\* (its empty reply placeholder included), a draft as the README tells the
\* user to write one.
BlockText(k, b) ==
    IndentLines(
        IF b.kind = "comment"
        THEN Local(writeDiscussionComment(
                       [ID |-> BlockID(k), Author |-> <<"ann">>, Body |-> BlockBody(k),
                        Replies |-> <<>>], b.parent),
                   LAMBDA t : IF b.anonymous THEN DropLine(t, "id:") ELSE t)
        ELSE <<"<!-- gh-md:new-comment">>
             \o (IF b.replyTo # <<>> THEN <<SP, "reply_to:", SP>> \o b.replyTo ELSE <<>>)
             \o <<SP, ARROW, NL>> \o DraftBody(k, b)
             \o <<NL, "<!-- /gh-md:new-comment", SP, ARROW, NL, NL>>,
        b.depth, b.tabbed)

RECURSIVE BlocksText(_, _)
BlocksText(blocks, k) ==
    IF k > Len(blocks) THEN <<>> ELSE BlockText(k, blocks[k]) \o BlocksText(blocks, k + 1)

LayoutHeader ==
    [Kind |-> ItemTypeDiscussion, ID |-> <<"D1">>, Title |-> <<"title">>,
     Body |-> <<"text">>, State |-> "", UpdatedAt |-> 1, Created |-> 0,
     Owner |-> <<"o">>, Repo |-> <<"r">>, Parent |-> <<>>, Children |-> <<>>,
     Comments |-> <<>>, ReviewThreads |-> <<>>]

\* "<!-- gh-md:comments" holds "<!-- gh-md:comment" and one more letter.
WrapperOpen == <<"<!-- gh-md:comment", "s", SP, ARROW, NL, NL>>
WrapperClose == <<"<!-- /gh-md:comment", "s", SP, ARROW, NL, NL>>

LayoutText(l) ==
    finishMarkdown(
        buildMarkdownWithFrontmatter(
            [ID |-> LayoutHeader.ID, Owner |-> LayoutHeader.Owner,
             Repo |-> LayoutHeader.Repo, Updated |-> LayoutHeader.UpdatedAt,
             State |-> <<>>, HasState |-> FALSE, Parent |-> <<>>, Children |-> <<>>],
            LayoutHeader.Title, LayoutHeader.Body)
        \o <<NL, DASHES, NL, NL>>
        \o (IF l.wrapped THEN WrapperOpen ELSE <<>>)
        \o BlocksText(l.blocks, 1)
        \o (IF l.wrapped THEN WrapperClose ELSE <<>>))

InitParse ==
    /\ layout \in Layouts
    /\ file = LayoutText(layout)
    /\ remote = LayoutHeader
    /\ dir = DirName(ItemTypeDiscussion)
    /\ pc = [at |-> "written", i |-> 0]
    /\ flags = NoFlags
    /\ parsed = NoParsed
    /\ remoteState = NoRemoteState
    /\ plan = NoPlan
    /\ log = <<>>
    /\ outcome = ""
    /\ budget = [runs |-> 0, edits |-> 0, changes |-> 0]

NextParse == ParseItem

SpecParse == InitParse /\ [][NextParse]_vars

(***************************************************************************)
(* Pushes of files as they may lie on disk: pulled and left alone, edited, *)
(* damaged in the editor, or kept in a directory of another name.          *)
(***************************************************************************)
\* text without the first occurrence of pat.
WithoutSeq(text, pat) ==
    Local(<<text, Index(text, pat)>>, LAMBDA v :
        IF v[2] = -1 THEN v[1]
        ELSE Slice(v[1], 0, v[2]) \o SliceFrom(v[1], v[2] + Len(pat)))

\* text without any "---" line after the first.
WithoutLaterDashes(text) ==
    <<text[1]>> \o SelectSeq(Tail(text), LAMBDA t : t # DASHES)

Damages ==
    {"intact", "edited", "header start dropped", "blank first line",
     "header never closed", "content start dropped", "content end dropped",
     "content sentinels dropped"}

Damaged(text, kind, damage) ==
    CASE damage = "intact" -> text
      [] damage = "edited" ->
            EditAt(IF kind = ItemTypeDiscussion THEN text ELSE ReplaceState(text, "closed"),
                   EmptyPlaceholders(text), Occurrences(text, commentStart))
      [] damage = "header start dropped" -> SliceFrom(text, 2)
      [] damage = "blank first line" -> <<NL>> \o text
      [] damage = "header never closed" -> WithoutLaterDashes(text)
      [] damage = "content start dropped" -> WithoutSeq(text, contentStart \o <<NL>>)
      [] damage = "content end dropped" -> WithoutSeq(text, contentEnd \o <<NL>>)
      [] damage = "content sentinels dropped" ->
            WithoutSeq(WithoutSeq(text, contentStart \o <<NL>>), contentEnd \o <<NL>>)

\* Names of the directory of a file of the kind: the one a pull makes, other
\* spellings of the vocabulary, and names outside it.
DirNames(kind) ==
    {DirName(kind), "misc", "pr"}
    \cup (CASE kind = ItemTypeIssue -> {"Issue", "ISSUES"}
            [] kind = ItemTypePullRequest -> {"pull", "PULLS"}
            [] kind = ItemTypeDiscussion -> {"discussion", "Discussions"})

OpenItems == {item \in InitialItems : item.State = "OPEN"}

InitFiles ==
    /\ remote \in OpenItems
    /\ \E damage \in Damages, d \in DirNames(remote.Kind) :
          /\ damage \in {"intact", "edited"} \/ d = DirName(remote.Kind)
          /\ file = Damaged(ItemToMarkdown(remote), remote.Kind, damage)
          /\ dir = d
    /\ pc = Idle
    /\ flags = NoFlags
    /\ parsed = NoParsed
    /\ remoteState = NoRemoteState
    /\ plan = NoPlan
    /\ log = <<>>
    /\ outcome = ""
    /\ budget = [runs |-> 0, edits |-> 0, changes |-> 0]
    /\ layout = NoLayout

NextFiles ==
    \/ PushStart
    \/ PushPlan
    \/ ExecTitleBody
    \/ ExecStateChange
    \/ ExecEditedComment
    \/ ExecNewComment
    \/ Repull

SpecFiles == InitFiles /\ [][NextFiles]_vars

(***************************************************************************)
(* extractTitleAndBody on its own, over content regions as an editor may   *)
(* leave them.                                                             *)
(***************************************************************************)
\* What stands between the content sentinels.
TitleRegions ==
    {<<NL, HASH, SP, "title", NL, NL, "text", NL>>,
     <<NL, NL, SP, SP, HASH, SP, "title", NL, "text", NL, NL, "more", NL, NL>>,
     <<NL, HASH, SP, "my", SP, "title", SP, NL, SP, "text", NL>>,
     <<NL, HASH, SP, "title", NL>>,
     <<NL, HASH, SP, NL, "text", NL>>,
     <<NL, HASH, SP, NL>>,
     <<NL, "text", NL>>,
     <<NL, "text", NL, HASH, SP, "title", NL>>,
     <<NL, HASH, HASH, SP, "sub", NL, "text", NL>>,
     <<NL, HASH, "title", NL, "text", NL>>,
     <<NL>>,
     <<>>}

\* Which sentinels the content has, and in which order.
TitleArrangements ==
    {"both", "no start", "no end", "none", "end first", "end first and last"}

TitleContent(before, region, arrangement) ==
    before
    \o (IF arrangement \in {"end first", "end first and last"}
        THEN contentEnd \o <<NL>> ELSE <<>>)
    \o (IF arrangement \in {"no start", "none"} THEN <<>> ELSE contentStart)
    \o region
    \o (IF arrangement \in {"no end", "none", "end first"} THEN <<>> ELSE contentEnd)
    \o <<NL, NL, DASHES, NL>>

InitTitle ==
    /\ \E before \in {<<NL>>, <<"note", NL>>}, region \in TitleRegions,
          arrangement \in TitleArrangements :
             file = TitleContent(before, region, arrangement)
    /\ remote = LayoutHeader
    /\ dir = DirName(ItemTypeDiscussion)
    /\ pc = [at |-> "content", i |-> 0]
    /\ flags = NoFlags
    /\ parsed = NoParsed
    /\ remoteState = NoRemoteState
    /\ plan = NoPlan
    /\ log = <<>>
    /\ outcome = ""
    /\ budget = [runs |-> 0, edits |-> 0, changes |-> 0]
    /\ layout = NoLayout

\* title, body := extractTitleAndBody(rest)
ExtractTitle ==
    /\ pc.at = "content"
    /\ \E r \in {extractTitleAndBody(file)} :
          parsed' = [NoParsed EXCEPT !.Title = r[1], !.Body = r[2]]
    /\ pc' = [at |-> "extracted", i |-> 0]
    /\ outcome' = "extracted"
    /\ UNCHANGED <<remote, file, dir, layout, flags, remoteState, plan, log, budget>>

NextTitle == ExtractTitle

SpecTitle == InitTitle /\ [][NextTitle]_vars

(***************************************************************************)
(* Issues with a parent issue and sub-issues, in the issue's own           *)
(* repository and in others.                                               *)
(***************************************************************************)
MaxChildren == 2

Owners == {<<"o">>, <<"p">>}
Repos == {<<"r">>, <<"s">>}

\* github.IssueReference of the issue with the given number.
Reference(number, owner, repo) ==
    [Number |-> number, State |-> <<"open">>, Owner |-> owner, Repo |-> repo]

References(count, first) ==
    UNION {{[k \in 1..n |-> Reference(first + k, where[k][1], where[k][2])] :
               where \in [1..n -> Owners \X Repos]} : n \in 0..count}

RefItems ==
    {[Kind |-> ItemTypeIssue, ID |-> <<"I1">>, Title |-> <<"title">>,
      Body |-> <<"text">>, State |-> "OPEN", UpdatedAt |-> 1, Created |-> 0,
      Owner |-> owner, Repo |-> repo, Parent |-> parent, Children |-> children,
      Comments |-> <<Comment1>>, ReviewThreads |-> <<>>] :
        owner \in Owners, repo \in Repos,
        parent \in References(1, 4), children \in References(MaxChildren, 5)}

InitRefs ==
    /\ remote \in RefItems
    /\ dir = DirName(remote.Kind)
    /\ file = <<>>
    /\ pc = [at |-> "item", i |-> 0]
    /\ flags = NoFlags
    /\ parsed = NoParsed
    /\ remoteState = NoRemoteState
    /\ plan = NoPlan
    /\ log = <<>>
    /\ outcome = ""
    /\ budget = [runs |-> 0, edits |-> 0, changes |-> 0]
    /\ layout = NoLayout

NextRefs == WriteItem \/ ParseItem

SpecRefs == InitRefs /\ [][NextRefs]_vars

(***************************************************************************)
(* Pushes of pull request files whose review threads were edited.          *)
(***************************************************************************)
reviewCommentStart == <<"<!-- gh-md:review-comment", NL>>

\* Replace the body of the review comment block at offset o.
ReplaceReviewBody(text, o, body) ==
    LET h == o + Index(SliceFrom(text, o), <<")", NL, NL>>)
        e == h + Index(SliceFrom(text, h), <<NL, "<!-- /gh-md:review-comment">>)
    IN Slice(text, 0, h + 3) \o body \o SliceFrom(text, e)

\* The review comments at the offsets `edits` get a new body, from the
\* bottom of the file upwards.
RECURSIVE ReviewEditAt(_, _)
ReviewEditAt(text, edits) ==
    IF edits = {} THEN text
    ELSE LET o == CHOOSE x \in edits : \A y \in edits : x >= y
         IN ReviewEditAt(ReplaceReviewBody(text, o, <<"edit">>), edits \ {o})

\* Pull requests with a comment and a review thread of one or two comments.
ReviewItems ==
    {[Kind |-> ItemTypePullRequest, ID |-> <<"P1">>, Title |-> <<"title">>,
      Body |-> <<"text">>, State |-> "OPEN", UpdatedAt |-> 1, Created |-> 0,
      Owner |-> <<"o">>, Repo |-> <<"r">>, Parent |-> <<>>, Children |-> <<>>,
      Comments |-> <<Comment1>>,
      ReviewThreads |->
          <<[ID |-> <<"T1">>,
             Comments |-> [k \in 1..n |->
                              [ID |-> <<"V" \o ToString(k)>>, Author |-> <<"bob">>,
                               Body |-> <<"nit">>]]]>>] : n \in 1..2}

\* The file is what a pull wrote, with any of its review comments and
\* comments rewritten, any of its placeholders filled, the state kept or set.
InitReview ==
    /\ remote \in ReviewItems
    /\ \E reviewed \in {ItemToMarkdown(remote)} :
       \E revs \in SUBSET Occurrences(reviewed, reviewCommentStart) :
       \E text \in {ReviewEditAt(reviewed, revs)} :
       \E fills \in SUBSET EmptyPlaceholders(text),
          edits \in SUBSET Occurrences(text, commentStart),
          st \in {"", "closed"} :
             file = EditAt(IF st = "" THEN text ELSE ReplaceState(text, st), fills, edits)
    /\ dir = DirName(remote.Kind)
    /\ pc = Idle
    /\ flags = NoFlags
    /\ parsed = NoParsed
    /\ remoteState = NoRemoteState
    /\ plan = NoPlan
    /\ log = <<>>
    /\ outcome = ""
    /\ budget = [runs |-> 0, edits |-> 0, changes |-> 0]
    /\ layout = NoLayout

NextReview ==
    \/ PushStart
    \/ PushPlan
    \/ ExecTitleBody
    \/ ExecStateChange
    \/ ExecEditedComment
    \/ ExecNewComment
    \/ Repull

SpecReview == InitReview /\ [][NextReview]_vars

(***************************************************************************)
(* WalkParsedFiles: the batch scan of the files under the root directory.  *)
(* layout.entries is what filepath.WalkDir visits, in its order;           *)
(* layout.filter is filters.Repo; log holds the calls of the callback.     *)
(***************************************************************************)
MaxEntries == 3

\* Drop the "-->" line that ends the metadata of the first comment block.
DropMetaEnd(text) ==
    Local(<<text, Index(text, <<NL, ARROW, NL>>)>>, LAMBDA v :
        Slice(v[1], 0, v[2] + 1) \o SliceFrom(v[1], v[2] + 3))

\* The issue a walked file was pulled from.
WalkItem(owner, repo) ==
    [Kind |-> ItemTypeIssue, ID |-> <<"I1">>, Title |-> <<"title">>,
     Body |-> <<"text">>, State |-> "OPEN", UpdatedAt |-> 1, Created |-> 0,
     Owner |-> owner, Repo |-> repo, Parent |-> <<>>, Children |-> <<>>,
     Comments |-> <<Comment1>>, ReviewThreads |-> <<>>]

\* What the walk may come across: directories, readable or not, files that
\* are no .md files, and .md files: pulled from o/r or p/s, kept outside the
\* kind directories, unreadable, with the header start missing, and with a
\* comment block whose metadata is not closed.
WalkEntries ==
    {[isDir |-> TRUE, walkErr |-> e, md |-> FALSE, readable |-> TRUE, dir |-> "issues",
      text |-> <<>>] : e \in BOOLEAN}
    \cup
    {[isDir |-> FALSE, walkErr |-> FALSE, md |-> FALSE, readable |-> TRUE, dir |-> "issues",
      text |-> ItemToMarkdown(WalkItem(<<"o">>, <<"r">>))]}
    \cup
    {[isDir |-> FALSE, walkErr |-> FALSE, md |-> TRUE, readable |-> TRUE, dir |-> d,
      text |-> ItemToMarkdown(WalkItem(w[1], w[2]))] :
        w \in {<<<<"o">>, <<"r">>>>, <<<<"p">>, <<"s">>>>}, d \in {"issues", "misc"}}
    \cup
    {[isDir |-> FALSE, walkErr |-> FALSE, md |-> TRUE, readable |-> FALSE, dir |-> "issues",
      text |-> <<>>]}
    \cup
    {[isDir |-> FALSE, walkErr |-> FALSE, md |-> TRUE, readable |-> TRUE, dir |-> "issues",
      text |-> t] :
        t \in {SliceFrom(ItemToMarkdown(WalkItem(<<"o">>, <<"r">>)), 2),
               DropMetaEnd(ItemToMarkdown(WalkItem(<<"o">>, <<"r">>)))}}

WalkFilters == {<<>>, <<"o", "/", "r">>, <<"x", "/", "y">>}

InitWalk ==
    /\ \E n \in 1..MaxEntries : \E entries \in [1..n -> WalkEntries] :
       \E filter \in WalkFilters :
          layout = [blocks |-> <<>>, wrapped |-> FALSE, entries |-> entries,
                    filter |-> filter]
    /\ remote = WalkItem(<<"o">>, <<"r">>)
    /\ dir = ""
    /\ file = <<>>
    /\ pc = [at |-> "walk", i |-> 1]
    /\ flags = NoFlags
    /\ parsed = NoParsed
    /\ remoteState = NoRemoteState
    /\ plan = NoPlan
    /\ log = <<>>
    /\ outcome = ""
    /\ budget = [runs |-> 0, edits |-> 0, changes |-> 0]

\* The walk goes on to the next entry, or returns nil after the last.
WalkOn ==
    IF pc.i < Len(layout.entries)
    THEN pc' = [at |-> "walk", i |-> pc.i + 1] /\ UNCHANGED outcome
    ELSE Finish("walked")

\* One call of the WalkDirFunc: the entry is skipped, or parsed and handed
\* to the callback, whose error ends the walk.  A panic of ParseFile ends
\* the process.
WalkStep ==
    /\ pc.at = "walk"
    /\ \E e \in {layout.entries[pc.i]} :
          IF e.walkErr \/ e.isDir \/ ~ e.md \/ ~ e.readable
          THEN WalkOn /\ UNCHANGED <<file, dir, parsed, log>>
          ELSE /\ file' = e.text
               /\ dir' = e.dir
               /\ \E p \in {parseContent(e.text, e.dir)} :
                     IF p.err
                     THEN WalkOn /\ parsed' = NoParsed /\ UNCHANGED log
                     ELSE IF p.panic
                     THEN Finish("panic") /\ parsed' = NoParsed /\ UNCHANGED log
                     ELSE /\ parsed' = p
                          /\ IF /\ layout.filter # <<>>
                                /\ p.Owner \o <<"/">> \o p.Repo # layout.filter
                             THEN WalkOn /\ UNCHANGED log
                             ELSE \/ /\ log' = Append(log, [call |-> [op |-> "callback",
                                                                      entry |-> pc.i],
                                                            ok |-> TRUE])
                                     /\ WalkOn
                                  \/ /\ log' = Append(log, [call |-> [op |-> "callback",
                                                                      entry |-> pc.i],
                                                            ok |-> FALSE])
                                     /\ Finish("callback error")
    /\ UNCHANGED <<remote, layout, flags, remoteState, plan, budget>>

NextWalk == WalkStep

SpecWalk == InitWalk /\ [][NextWalk]_vars

(***************************************************************************)
(* cmd/pull.go: runPullAll over the managed repositories.  layout.repos is *)
(* what DiscoverManagedRepos returns; log holds one entry per pullRepo     *)
(* call, ok when it returned nil.                                          *)
(***************************************************************************)
MaxRepos == 3

Slugs == {<<"o", "/", "r">>, <<"o", "/", "s">>, <<"p", "/", "r">>}

InitPullAll ==
    /\ \E n \in 0..MaxRepos : \E repos \in [1..n -> Slugs] :
          layout = [blocks |-> <<>>, wrapped |-> FALSE, repos |-> repos]
    /\ remote = WalkItem(<<"o">>, <<"r">>)
    /\ dir = ""
    /\ file = <<>>
    /\ pc = [at |-> "discover", i |-> 0]
    /\ flags = NoFlags
    /\ parsed = NoParsed
    /\ remoteState = NoRemoteState
    /\ plan = NoPlan
    /\ log = <<>>
    /\ outcome = ""
    /\ budget = [runs |-> 0, edits |-> 0, changes |-> 0]

\* DiscoverManagedRepos, the empty case and NewClient.
PullAllStart ==
    /\ pc.at = "discover"
    /\ \/ Finish("failed to discover repositories")
       \/ /\ Len(layout.repos) = 0
          /\ Finish("no managed repositories")
       \/ /\ Len(layout.repos) > 0
          /\ \/ Finish("no client")
             \/ pc' = [at |-> "pull", i |-> 1] /\ UNCHANGED outcome
    /\ UNCHANGED <<remote, file, dir, layout, flags, parsed, remoteState, plan, log, budget>>

\* pullRepo: it returns an error when the sync metadata cannot be loaded or
\* when the pull of one of the kinds fails.
pullRepoFails(loaded, failedKinds) == ~ loaded \/ failedKinds # {}

\* A faulty loop that leaves at the first repository that fails.
PullNext_stopAtFailure(i, n, failed) == IF i < n /\ ~ failed THEN i + 1 ELSE 0

\* for i, repo := range repos: the index of the next repository, 0 after
\* the last.
PullNext(i, n, failed) == IF i < n THEN i + 1 ELSE 0

\* The errors collected so far.
PullErrors(l) == SelectSeq(l, LAMBDA x : ~ x.ok)

\* What runPullAll returns after the loop.
PullAllResult(errors) ==
    IF Len(errors) > 0
    THEN ToString(Len(errors)) \o " repositories failed to update"
    ELSE "pulled all"

\* One pass of the loop, and the return after the last.
PullAllStep ==
    /\ pc.at = "pull"
    /\ \E loaded \in BOOLEAN,
          failedKinds \in SUBSET {ItemTypeIssue, ItemTypePullRequest, ItemTypeDiscussion} :
          /\ log' = Append(log, [call |-> [op |-> "pullRepo", entry |-> pc.i,
                                           slug |-> layout.repos[pc.i]],
                                 ok |-> ~ pullRepoFails(loaded, failedKinds)])
          /\ \E next \in {PullNext(pc.i, Len(layout.repos),
                                   pullRepoFails(loaded, failedKinds))} :
                IF next # 0
                THEN pc' = [at |-> "pull", i |-> next] /\ UNCHANGED outcome
                ELSE Finish(PullAllResult(PullErrors(log')))
    /\ UNCHANGED <<remote, file, dir, layout, flags, parsed, remoteState, plan, budget>>

NextPullAll == PullAllStart \/ PullAllStep

SpecPullAll == InitPullAll /\ [][NextPullAll]_vars

(***************************************************************************)
(* A pull followed at once by a push: the file is what the writer made of  *)
(* the remote item, whatever its texts, and nobody touches either.         *)
(***************************************************************************)
InitPullPush ==
    /\ remote \in {item \in CodecItems : Len(item.Comments) <= 1}
    /\ file = ItemToMarkdown(remote)
    /\ dir = DirName(remote.Kind)
    /\ pc = Idle
    /\ flags = NoFlags
    /\ parsed = NoParsed
    /\ remoteState = NoRemoteState
    /\ plan = NoPlan
    /\ log = <<>>
    /\ outcome = ""
    /\ budget = [runs |-> 0, edits |-> 0, changes |-> 0]
    /\ layout = NoLayout

NextPullPush ==
    \/ PushStart
    \/ PushPlan
    \/ ExecTitleBody
    \/ ExecEditedComment
    \/ ExecNewComment
    \/ Repull

SpecPullPush == InitPullPush /\ [][NextPullPush]_vars

(***************************************************************************)
(* assignParentIDs taken one comment at a time: the comments to process,   *)
(* each with its depth, the position in the loop and the depth table.      *)
(***************************************************************************)
MaxChain == 3

\* for d := depth + 1; d < 10; d++
TableLimit == 10

ChainDepths == {0, 1, TableLimit - 1, TableLimit, TableLimit + 1}

ChainComment(k, hasID, parent, depth) ==
    [comment |-> [ID |-> IF hasID THEN <<"C", ToString(k)>> ELSE <<>>,
                  Author |-> <<>>, Body |-> <<"text">>, ParentID |-> parent],
     depth |-> depth, position |-> k * 1000, panic |-> FALSE]

Chains ==
    UNION {{[k \in 1..n |-> ChainComment(k, ids[k], parents[k], depths[k])] :
                ids \in [1..n -> BOOLEAN],
                parents \in [1..n -> {<<>>, <<"P">>}],
                depths \in [1..n -> ChainDepths]} : n \in 1..MaxChain}

InitAssign ==
    /\ \E cwds \in Chains :
          layout = [blocks |-> <<>>, wrapped |-> FALSE, cwds |-> cwds]
    /\ remote = WalkItem(<<"o">>, <<"r">>)
    /\ dir = ""
    /\ file = <<>>
    /\ pc = [at |-> "assign", i |-> 1, depthStack |-> <<>>]
    /\ flags = NoFlags
    /\ parsed = NoParsed
    /\ remoteState = NoRemoteState
    /\ plan = NoPlan
    /\ log = <<>>
    /\ outcome = ""
    /\ budget = [runs |-> 0, edits |-> 0, changes |-> 0]

\* One turn of for _, cwd := range commentsWithDepth.
AssignStep ==
    /\ pc.at = "assign"
    /\ pc.i <= Len(layout.cwds)
    /\ \E cwd \in {layout.cwds[pc.i]} :
       \E comment \in {[cwd.comment EXCEPT
                           !.ParentID = ParentFor(pc.depthStack, cwd.comment, cwd.depth)]} :
          /\ parsed' = [parsed EXCEPT !.Comments = @ \o <<comment>>]
          /\ pc' = [pc EXCEPT !.i = @ + 1,
                              !.depthStack = StackAfter(pc.depthStack, comment, cwd.depth)]
    /\ UNCHANGED <<remote, file, dir, layout, flags, remoteState, plan, log, outcome, budget>>

\* return result
AssignReturn ==
    /\ pc.at = "assign"
    /\ pc.i > Len(layout.cwds)
    /\ pc' = Idle
    /\ outcome' = "assigned"
    /\ UNCHANGED <<remote, file, dir, layout, flags, parsed, remoteState, plan, log, budget>>

NextAssign == AssignStep \/ AssignReturn

SpecAssign == InitAssign /\ [][NextAssign]_vars

(***************************************************************************)
(* executeChanges on its own: a plan built from any parsed file is carried *)
(* out call by call.                                                       *)
(***************************************************************************)
\* if !hasChanges(plan) { return nil }; executeChanges(...)
ExecStart ==
    /\ pc.at = "planned"
    /\ IF hasChanges(plan)
       THEN pc' = [at |-> "title", i |-> 0] /\ UNCHANGED outcome
       ELSE Finish("no changes")
    /\ UNCHANGED <<remote, file, dir, layout, flags, parsed, remoteState, plan, log, budget>>

\* return nil
ExecReturn ==
    /\ pc.at = "repull"
    /\ Finish("executed")
    /\ UNCHANGED <<remote, file, dir, layout, flags, parsed, remoteState, plan, log, budget>>

NextExec ==
    \/ BuildPlan
    \/ ExecStart
    \/ ExecTitleBody
    \/ ExecStateChange
    \/ ExecEditedComment
    \/ ExecNewComment
    \/ ExecReturn

SpecExec == InitPlan /\ [][NextExec]_vars

(***************************************************************************)
(* Properties of the push                                                  *)
(***************************************************************************)
\* The operations of the mutations, by step of executeChanges.
TitleOps == {"UpdateIssue", "UpdatePullRequest", "UpdateDiscussion"}
StateOps == {"CloseIssue", "ReopenIssue", "ClosePullRequest", "ReopenPullRequest"}
EditOps == {"UpdateIssueComment", "UpdateDiscussionComment"}
NewOps == {"AddComment", "AddDiscussionComment", "AddDiscussionCommentReply",
           "AddReviewThreadReply"}

\* The Updated timestamp the local file records.
LocalUpdated(text) == extractFrontmatter(text).fm.Updated

\* The run in progress (or the last one, when idle) saw the remote item later
\* than the file and was not forced.
LateUnforced == remoteState.UpdatedAt > parsed.Updated /\ ~ flags.force

\* C1: a run that finds the remote UpdatedAt strictly after the file's Updated
\* without --force never gets past the conflict check: it sends no mutation,
\* never reaches the re-pull, leaves the file as it is and ends with the
\* conflict error (or with the error of the comment fetch that precedes the
\* check); and a run ends with the conflict error only in that case, so equal
\* or earlier remote timestamps raise no conflict.
C1_ConflictRule ==
    /\ [](LateUnforced =>
             /\ pc.at \in {"idle", "comments"}
             /\ log = <<>>
             /\ (pc = Idle => outcome \in {"conflict", "fetch error"}))
    /\ []((pc = Idle /\ outcome = "conflict") => LateUnforced)
    /\ [][(pc # Idle /\ LateUnforced) => file' = file /\ log' = <<>>]_vars

\* A run has just ended in the conflict error, the file still as the user
\* edited it.
C1_Witness ==
    /\ pc = Idle
    /\ outcome = "conflict"
    /\ remoteState.UpdatedAt = parsed.Updated + 1
    /\ budget.edits > 0
    /\ log = <<>>


\* The step of executeChanges a mutation belongs to.
StepOf(call) ==
    CASE call.op \in TitleOps -> 1
      [] call.op \in StateOps -> 2
      [] call.op \in EditOps -> 3
      [] call.op \in NewOps -> 4

\* The calls of one step that the run has sent, in the order sent.
Sent(step) ==
    LET es == SelectSeq(log, LAMBDA e : StepOf(e.call) = step)
    IN [k \in 1..Len(es) |-> es[k].call]

\* C2: the mutations of a run are sent in the order title/body, state,
\* edited comments, new comments.  The first call is the title/body update
\* and only the last call can have failed; a state call follows a successful
\* title/body update; a comment update is sent only after the planned state
\* transition; a comment creation only after every planned comment update;
\* and the updates and the creations follow the order of the plan.
C2_ExecutionOrder ==
    /\ \A i, j \in 1..Len(log) : i < j => StepOf(log[i].call) <= StepOf(log[j].call)
    /\ \A i \in 1..(Len(log) - 1) : log[i].ok
    /\ Len(log) > 0 => log[1].call = TitleCall(parsed)
    /\ Len(Sent(1)) <= 1 /\ Len(Sent(2)) <= 1
    /\ Len(Sent(2)) = 1 => Sent(2)[1] = StateCall(parsed, plan) /\ plan.stateChange # ""
    /\ (Len(Sent(3)) + Len(Sent(4)) > 0
           /\ plan.stateChange # "" /\ parsed.ItemType # ItemTypeDiscussion)
          => Len(Sent(2)) = 1
    /\ Len(Sent(3)) <= Len(plan.editedComments)
    /\ \A k \in 1..Len(Sent(3)) : Sent(3)[k] = EditCall(parsed, plan.editedComments[k])
    /\ Len(Sent(4)) > 0 => Len(Sent(3)) = Len(plan.editedComments)
    /\ Len(Sent(4)) <= Len(plan.newComments)
    /\ \A k \in 1..Len(Sent(4)) : Sent(4)[k] = NewCall(parsed, plan.newComments[k])

\* A run has sent the title/body update, two comment updates and then two
\* new comments, all of them accepted.
C2_Witness ==
    /\ Len(log) = 5
    /\ [i \in 1..5 |-> StepOf(log[i].call)] = <<1, 3, 3, 4, 4>>
    /\ log[2].call.target # log[3].call.target
    /\ log[4].call # log[5].call
    /\ \A i \in 1..5 : log[i].ok


Planned(p, pl) ==
    1 + (IF pl.stateChange # "" /\ p.ItemType # ItemTypeDiscussion THEN 1 ELSE 0)
      + Len(pl.editedComments) + Len(pl.newComments)

\* C4: a run in which a mutation failed has still sent every mutation of its
\* plan.
C4_ContinuesAfterFailure ==
    (pc = Idle /\ outcome = "push error") => Len(log) = Planned(parsed, plan)

\* C8: a run that read the remote state MERGED plans no reopen and sends no
\* reopen mutation.
C8_MergeGuard ==
    remoteState.State = <<"MERGED">> =>
        /\ plan.stateChange # "reopen"
        /\ \A i \in 1..Len(log) :
              log[i].call.op \notin {"ReopenIssue", "ReopenPullRequest"}

\* A push of a merged pull request whose file says "open" went through, past
\* the state step.
C8_Witness ==
    /\ pc = Idle
    /\ outcome = "pushed"
    /\ remoteState.State = <<"MERGED">>
    /\ parsed.State = <<"open">>
    /\ plan.stateChange = ""

\* The outcomes of a run that got as far as executeChanges.
Executed == {"push error", "pushed", "pushed, file not synced"}

\* C9: every plan that is built marks title/body as changed, so hasChanges
\* holds for it; no run ends in "no changes"; and a run that is past the dry
\* run has sent the title/body update first.
C9_AlwaysChanged ==
    /\ outcome # "no changes"
    /\ plan # NoPlan => plan.titleBodyChanged /\ hasChanges(plan)
    /\ pc.at \in {"title", "state", "edited", "new", "repull"} => plan # NoPlan
    /\ (pc.at \in {"state", "edited", "new", "repull"} \/ (pc = Idle /\ outcome \in Executed))
          => Len(log) > 0 /\ log[1].call = TitleCall(parsed)

\* The file is as it was pulled, nothing changed on GitHub, and the push went
\* through with the title/body update as its only mutation.
C9_Witness ==
    /\ budget = [runs |-> 1, edits |-> 0, changes |-> 0]
    /\ pc = Idle
    /\ outcome = "pushed"
    /\ plan = [titleBodyChanged |-> TRUE, stateChange |-> "", newComments |-> <<>>,
               editedComments |-> <<>>]
    /\ Len(log) = 1 /\ log[1].ok /\ log[1].call.op \in TitleOps


(***************************************************************************)
(* Properties of the plan                                                  *)
(***************************************************************************)
\* The k-th smallest element of a set of indices.
Nth(idx, k) == CHOOSE i \in idx : Cardinality({m \in idx : m <= i}) = k

\* The elements of cs at the indices idx, in order.
Pick(cs, idx) == [k \in 1..Cardinality(idx) |-> cs[Nth(idx, k)]]

\* The remote comment with the ID of c, and whether their trimmed bodies differ.
KnownRemotely(c) == \E j \in 1..Len(PlanRemoteComments) : PlanRemoteComments[j].ID = c.ID

DiffersRemotely(c) ==
    \E j \in 1..Len(PlanRemoteComments) :
        /\ PlanRemoteComments[j].ID = c.ID
        /\ TrimSpace(c.Body) # TrimSpace(PlanRemoteComments[j].Body)

\* C6: newComments holds exactly the parsed comments without ID, unchanged
\* and in order; editedComments exactly those with an ID whose trimmed body
\* differs from the trimmed remote body of that ID; a comment whose trimmed
\* body equals the remote one is in neither list, so a file whose bodies all
\* match gives no edited comment; and no comment is in both lists.
C6_CommentClassification ==
    pc.at = "planned" =>
        LET cs == parsed.Comments
            new == {i \in 1..Len(cs) : cs[i].ID = <<>>}
            edited == {i \in 1..Len(cs) : cs[i].ID # <<>> /\ DiffersRemotely(cs[i])}
            same == {i \in 1..Len(cs) : KnownRemotely(cs[i]) /\ ~ DiffersRemotely(cs[i])}
        IN /\ plan.newComments = Pick(cs, new)
           /\ plan.editedComments = Pick(cs, edited)
           /\ \A i \in same :
                 /\ \A k \in 1..Len(plan.newComments) : plan.newComments[k] # cs[i]
                 /\ \A k \in 1..Len(plan.editedComments) : plan.editedComments[k] # cs[i]
           /\ (\A i \in 1..Len(cs) : cs[i].ID # <<>> => ~ DiffersRemotely(cs[i]))
                 => plan.editedComments = <<>>
           /\ \A a \in 1..Len(plan.newComments), b \in 1..Len(plan.editedComments) :
                 plan.newComments[a] # plan.editedComments[b]

\* A plan with a new reply, carried through as written, next to an edited
\* comment.
C6_Witness ==
    /\ pc.at = "planned"
    /\ Len(parsed.Comments) = 2
    /\ plan.newComments = <<[ID |-> <<>>, Author |-> <<>>, Body |-> <<"two", SP>>,
                             ParentID |-> <<"C1">>]>>
    /\ Len(plan.editedComments) = 1
    /\ plan.editedComments[1].ID = <<"C2">>

\* C7: for an issue or pull request with both states non-empty the plan
\* closes when the local state is closed and the remote one is not, reopens
\* when the local state is open and the remote one is neither open nor
\* merged, and leaves the state alone otherwise; for a discussion it always
\* leaves it alone.
C7_StateTransition ==
    pc.at = "planned" =>
        LET local == ToLower(parsed.State)
            rem == ToLower(remoteState.State)
        IN IF parsed.ItemType = ItemTypeDiscussion THEN plan.stateChange = ""
           ELSE (parsed.State # <<>> /\ remoteState.State # <<>>) =>
                   plan.stateChange =
                       (IF local = rem THEN ""
                        ELSE IF local = <<"closed">> THEN "close"
                        ELSE IF local = <<"open">> /\ rem # <<"merged">> THEN "reopen"
                        ELSE "")

\* A reopen is planned for an issue closed on GitHub whose file says open.
C7_Witness ==
    /\ pc.at = "planned"
    /\ parsed.ItemType = ItemTypeIssue
    /\ parsed.State = <<"open">>
    /\ remoteState.State = <<"CLOSED">>
    /\ plan.stateChange = "reopen"


(***************************************************************************)
(* Properties of the codec                                                 *)
(***************************************************************************)
\* The (ID, Author, trimmed Body, ParentID) tuples of an item's comments,
\* discussion replies in pre-order after the comment they reply to.
RECURSIVE CommentTuples(_, _)
CommentTuples(cs, parentID) ==
    IF Len(cs) = 0 THEN <<>>
    ELSE <<[ID |-> cs[1].ID, Author |-> cs[1].Author, Body |-> TrimSpace(cs[1].Body),
            ParentID |-> parentID]>>
         \o CommentTuples(cs[1].Replies, cs[1].ID)
         \o CommentTuples(Tail(cs), parentID)

RoundTrips(item, p) ==
    /\ ~ p.err /\ ~ p.panic
    /\ p.ID = item.ID
    /\ p.Title = item.Title
    /\ p.Body = TrimSpace(item.Body)
    /\ p.Comments = CommentTuples(item.Comments, <<>>)

\* C5: parsing the text written for an item gives back its ID, its Title,
\* its trimmed Body and the tuples of its comments, in order, none lost and
\* none added.
C5_RoundTrip ==
    pc.at = "parsed" => outcome = "parsed" /\ RoundTrips(remote, parsed)

HasMarkers(item) ==
    \/ item.Body \in MarkerBodies
    \/ \E k \in 1..Len(item.Comments) : item.Comments[k].Body \in MarkerBodies

\* Items whose texts quote no marker do round-trip.
PlainRoundTrip ==
    (pc.at = "parsed" /\ ~ HasMarkers(remote)) => outcome = "parsed" /\ RoundTrips(remote, parsed)


(***************************************************************************)
(* Properties of the parser                                                *)
(***************************************************************************)
Blocks == layout.blocks

\* The parsed comments that come from the k-th block of the layout, known by
\* the word their body ends with.
ParsedFrom(k) ==
    {i \in DOMAIN parsed.Comments :
        /\ parsed.Comments[i].Body # <<>>
        /\ parsed.Comments[i].Body[Len(parsed.Comments[i].Body)]
              = (IF Blocks[k].kind = "comment" THEN "body" ELSE "draft") \o ToString(k)}

\* The parent a block names explicitly.
Explicit(b) == IF b.kind = "comment" THEN b.parent ELSE b.replyTo

\* C10: an explicit parent marker wins over indentation: a filled placeholder
\* whose opening tag carries reply_to: X has ParentID X, a comment block whose
\* metadata carries parent: P has ParentID P, at any depth and after any
\* blocks; a reply_to quoted in the body of a draft is not read.
C10_ExplicitParentWins ==
    (pc.at = "parsed" /\ Blocks # <<>>) =>
        /\ outcome = "parsed"
        /\ \A k \in DOMAIN Blocks :
              /\ Cardinality(ParsedFrom(k)) = 1
              /\ \A i \in ParsedFrom(k) :
                    /\ Explicit(Blocks[k]) # <<>> =>
                          parsed.Comments[i].ParentID = Explicit(Blocks[k])
                    /\ (Blocks[k].kind = "draft" /\ Blocks[k].replyTo = <<>>) =>
                          parsed.Comments[i].ParentID = <<>>

\* A comment at depth 0, then an indented comment that names another parent,
\* then an indented draft whose tag names a third one and whose body quotes
\* a fourth.
C10_Witness ==
    /\ pc.at = "parsed" /\ outcome = "parsed"
    /\ Len(Blocks) = 3
    /\ Blocks[1].kind = "comment" /\ Blocks[1].depth = 0 /\ Blocks[1].parent = <<>>
    /\ ~ Blocks[1].anonymous
    /\ Blocks[2].kind = "comment" /\ Blocks[2].depth = 1 /\ Blocks[2].parent = <<"C9">>
    /\ Blocks[3].kind = "draft" /\ Blocks[3].depth = 2 /\ Blocks[3].replyTo = <<"C8">>
    /\ Blocks[3].quoting
    /\ parsed.Comments[2].ParentID = <<"C9">>
    /\ parsed.Comments[3].ParentID = <<"C8">>


\* The comment blocks before block k that stand at depth e, have an ID, and
\* are followed before k by no comment with an ID at a shallower depth.
OpenAt(k, e) ==
    {j \in 1..(k - 1) :
        /\ Blocks[j].kind = "comment" /\ ~ Blocks[j].anonymous /\ Blocks[j].depth = e
        /\ ~ \E n \in (j + 1)..(k - 1) :
                /\ Blocks[n].kind = "comment" /\ ~ Blocks[n].anonymous
                /\ Blocks[n].depth < e}

\* The parent the indentation of block k implies.
Implied(k) ==
    LET open == {e \in 0..(Blocks[k].depth - 1) : OpenAt(k, e) # {}}
    IN IF open = {} THEN <<>>
       ELSE LET e == CHOOSE x \in open : \A y \in open : x >= y
            IN BlockID(CHOOSE j \in OpenAt(k, e) : \A n \in OpenAt(k, e) : j >= n)

DraftWords == {"draft" \o ToString(k) : k \in 1..(MaxBlocks + 1)}

\* What the drafts of the layout, from block k on, are to be parsed as.
RECURSIVE ExpectedDrafts(_)
ExpectedDrafts(k) ==
    IF k > Len(Blocks) THEN <<>>
    ELSE (IF Blocks[k].kind = "draft"
          THEN <<[ID |-> <<>>,
                  Body |-> TrimSpace(IndentLines(DraftBody(k, Blocks[k]),
                                                 Blocks[k].depth, FALSE))]>>
          ELSE <<>>)
         \o ExpectedDrafts(k + 1)

\* The parsed comments that come from drafts, in parsed order.
RECURSIVE ParsedDrafts(_)
ParsedDrafts(i) ==
    IF i > Len(parsed.Comments) THEN <<>>
    ELSE (IF /\ parsed.Comments[i].Body # <<>>
             /\ parsed.Comments[i].Body[Len(parsed.Comments[i].Body)] \in DraftWords
          THEN <<[ID |-> parsed.Comments[i].ID, Body |-> parsed.Comments[i].Body]>>
          ELSE <<>>)
         \o ParsedDrafts(i + 1)

\* C12: each filled placeholder yields exactly one comment with empty ID and
\* its trimmed body, in the order of the placeholders; the empty and the
\* white-space-only placeholders yield no comment and no error; a comment
\* block without id line is parsed with empty ID at any depth and position.
C12_NewComments ==
    pc.at = "parsed" =>
        /\ outcome = "parsed"
        /\ ParsedDrafts(1) = ExpectedDrafts(1)
        /\ Len(parsed.Comments) = Len(Blocks)
        /\ \A k \in DOMAIN Blocks :
              (Blocks[k].kind = "comment" /\ Blocks[k].anonymous) =>
                  /\ Cardinality(ParsedFrom(k)) = 1
                  /\ \A i \in ParsedFrom(k) : parsed.Comments[i].ID = <<>>

\* A draft, an indented comment without id line (followed by the rest of a
\* reply placeholder left empty) and a second, indented draft.
C12_Witness ==
    /\ pc.at = "parsed" /\ outcome = "parsed"
    /\ Len(Blocks) = 3
    /\ Blocks[1].kind = "draft" /\ Blocks[1].depth = 0
    /\ Blocks[2].kind = "comment" /\ Blocks[2].anonymous /\ Blocks[2].depth = 1
    /\ Blocks[3].kind = "draft" /\ Blocks[3].depth = MaxDepth
    /\ Len(ParsedDrafts(1)) = 2
    /\ Cardinality(Occurrences(file, newCommentEnd)) = 4


\* C13: the ParentID of a parsed comment with empty ID is the ID of a
\* pre-existing comment of the document (the documents of the layouts have
\* no review threads).
C13_ParentExists ==
    pc.at = "parsed" =>
        \A i \in DOMAIN parsed.Comments :
            (parsed.Comments[i].ID = <<>> /\ parsed.Comments[i].ParentID # <<>>) =>
                \E j \in DOMAIN parsed.Comments :
                    /\ parsed.Comments[j].ID # <<>>
                    /\ parsed.Comments[j].ID = parsed.Comments[i].ParentID


\* The words that end the bodies of comment blocks.
BodyWords == {"body" \o ToString(k) : k \in 1..(MaxBlocks + 1)}

\* C14: the section wrapper "<!-- gh-md:comments -->" is never parsed as a
\* comment: a wrapper around n comment blocks parses to exactly n comments
\* (next to the ones of the filled placeholders), each block once.
C14_WrapperIsNoComment ==
    (pc.at = "parsed" /\ layout.wrapped) =>
        /\ outcome = "parsed"
        /\ Len(parsed.Comments) = Len(Blocks)
        /\ Cardinality({i \in DOMAIN parsed.Comments :
                           /\ parsed.Comments[i].Body # <<>>
                           /\ parsed.Comments[i].Body[Len(parsed.Comments[i].Body)]
                                 \in BodyWords})
              = Cardinality({k \in DOMAIN Blocks : Blocks[k].kind = "comment"})
        /\ \A k \in DOMAIN Blocks :
              (Blocks[k].kind = "comment" /\ ~ Blocks[k].anonymous) =>
                  /\ Cardinality(ParsedFrom(k)) = 1
                  /\ \A i \in ParsedFrom(k) : parsed.Comments[i].ID = BlockID(k)

\* A wrapper around one comment block, parsed to that one comment.
C14_Witness ==
    /\ pc.at = "parsed" /\ outcome = "parsed"
    /\ layout.wrapped
    /\ Index(file, WrapperOpen) # -1
    /\ Len(Blocks) = 1 /\ Blocks[1].kind = "comment" /\ ~ Blocks[1].anonymous
    /\ Len(parsed.Comments) = 1
    /\ parsed.Comments[1].ID = BlockID(1)


(***************************************************************************)
(* Properties of pushes of damaged and misplaced files                     *)
(***************************************************************************)
\* The text does not begin with the header start, or no header end follows.
BadHeader(text) ==
    \/ Len(text) < 2 \/ text[1] # DASHES \/ text[2] # NL
    \/ ~ \E i \in 3..(Len(text) - 2) :
            text[i] = NL /\ text[i + 1] = DASHES /\ text[i + 2] = NL

\* C15: a text that does not begin with the header start sentinel, or that
\* has no header end sentinel after it, fails to parse and yields no
\* document; the push of such a file returns the parse error before it
\* contacts the remote: nothing is fetched and nothing is sent.
C15_BadHeaderIsFatal ==
    BadHeader(file) =>
        /\ pc = Idle
        /\ parseContent(file, dir).err
        /\ outcome \in {"", "parse error"}
        /\ budget.runs > 0 => outcome = "parse error"
        /\ parsed = NoParsed
        /\ remoteState = NoRemoteState
        /\ log = <<>>

\* A run on a file whose header is never closed has ended with the parse
\* error, the remote item untouched.
C15_Witness ==
    /\ pc = Idle /\ outcome = "parse error"
    /\ budget.runs = MaxPushes
    /\ HasPrefix(file, <<DASHES, NL>>)
    /\ BadHeader(file)
    /\ remote \in OpenItems


\* A content sentinel is missing from the text.
MissingContent(text) ==
    Index(text, contentStart) = -1 \/ Index(text, contentEnd) = -1

\* C16: a file whose content sentinels are missing fails to parse, so it
\* is never pushed: its run ends with the parse error and sends nothing.
C16_MissingContentIsFatal ==
    (MissingContent(file) /\ ~ BadHeader(file)) =>
        /\ parseContent(file, dir).err
        /\ outcome \in {"", "parse error"}
        /\ \A i \in DOMAIN log : log[i].call.op \notin TitleOps

\* C18: the kind of a parsed file is the one its directory name spells,
\* whatever the case of the letters and whatever the file holds; a name
\* outside the vocabulary is no parse error and gives the empty kind, and
\* the push of such a file ends before anything is fetched or sent.
C18_KindFromDirectory ==
    /\ parsed # NoParsed =>
          parsed.ItemType =
             CASE dir \in {"issues", "Issue", "ISSUES"} -> ItemTypeIssue
               [] dir \in {"pulls", "pull", "PULLS"} -> ItemTypePullRequest
               [] dir \in {"discussions", "discussion", "Discussions"} -> ItemTypeDiscussion
               [] OTHER -> ""
    /\ (dir \in {"misc", "pr"} /\ budget.runs > 0) =>
          /\ pc = Idle
          /\ outcome = "no item type"
          /\ parsed # NoParsed /\ parsed.ItemType = ""
          /\ remoteState = NoRemoteState
          /\ log = <<>>

\* A file in ISSUES was pushed as an issue.
C18_Witness ==
    /\ dir = "ISSUES" /\ outcome = "pushed" /\ parsed.ItemType = ItemTypeIssue
    /\ Len(log) > 1 /\ log[1].call.op = "UpdateIssue"


(***************************************************************************)
(* Properties of extractTitleAndBody                                       *)
(***************************************************************************)
\* The offset of the first occurrence of a sentinel, -1 when it has none.
FirstAt(text, pat) ==
    IF Occurrences(text, pat) = {} THEN -1
    ELSE CHOOSE o \in Occurrences(text, pat) : \A q \in Occurrences(text, pat) : o <= q

\* The trimmed text between the sentinels, as lines.
RegionLines(text) ==
    SplitLines(TrimSpace(SubSeq(text, FirstAt(text, contentStart) + Len(contentStart) + 1,
                                FirstAt(text, contentEnd))))

\* C17: no title and no body when a content sentinel is absent or the end
\* sentinel is not after the start sentinel; otherwise, when the first
\* non-blank line of the region starts with the heading marker "# ", Title is
\* that line without the marker and Body the trimmed remainder, and when it
\* does not, Title is empty and Body the whole trimmed region.
C17_TitleAndBody ==
    pc.at = "extracted" =>
        IF \/ FirstAt(file, contentStart) = -1
           \/ FirstAt(file, contentEnd) = -1
           \/ FirstAt(file, contentEnd) <= FirstAt(file, contentStart)
        THEN parsed.Title = <<>> /\ parsed.Body = <<>>
        ELSE IF /\ Len(RegionLines(file)[1]) >= 2
                /\ RegionLines(file)[1][1] = HASH
                /\ RegionLines(file)[1][2] = SP
        THEN /\ parsed.Title = SubSeq(RegionLines(file)[1], 3, Len(RegionLines(file)[1]))
             /\ parsed.Body = TrimSpace(JoinLines(Tail(RegionLines(file))))
        ELSE /\ parsed.Title = <<>>
             /\ parsed.Body = TrimSpace(JoinLines(RegionLines(file)))

\* A region that opens with blank lines and an indented heading, followed by
\* two paragraphs.
C17_Witness ==
    /\ pc.at = "extracted"
    /\ parsed.Title = <<"title">>
    /\ parsed.Body = <<"text", NL, NL, "more">>
    /\ Index(file, contentStart \o <<NL, NL, SP, SP, HASH>>) # -1


(***************************************************************************)
(* Properties of the written text                                          *)
(***************************************************************************)
\* What follows the closing marker at offset o, white space skipped.
Following(text, o) == TrimSpace(SliceFrom(text, o + 3))

\* The ID of the block that closes at offset o: the value of the last id
\* line before o.
ClosedID(text, o) ==
    <<text[(CHOOSE i \in Occurrences(text, <<"id:", SP>>) :
               i < o /\ \A q \in Occurrences(text, <<"id:", SP>>) : q < o => q <= i) + 3]>>

\* An empty placeholder, with the parent it names.
Placeholder(id) ==
    <<"<!-- gh-md:new-comment">>
    \o (IF id # <<>> THEN <<SP, "reply_to:", SP>> \o id ELSE <<>>)
    \o <<SP, ARROW, NL, NL, "<!-- /gh-md:new-comment", SP, ARROW>>

\* C19: in the text written for an issue, a pull request or a discussion,
\* every existing comment is followed by an empty new-comment placeholder
\* and every review thread ends with one; the placeholder after a discussion
\* comment and the one of a review thread name that comment or thread in
\* reply_to.
C19_PlaceholderAfterEach ==
    (pc.at = "written" /\ ~ HasMarkers(remote)) =>
        /\ \A o \in Occurrences(file, commentEnd) :
              HasPrefix(Following(file, o),
                        Placeholder(IF remote.Kind = ItemTypeDiscussion
                                    THEN ClosedID(file, o) ELSE <<>>))
        /\ \A k \in 1..Len(remote.ReviewThreads) :
              Index(file, Placeholder(remote.ReviewThreads[k].ID)
                          \o <<NL, NL, "<!-- /gh-md:review-thread", SP, ARROW>>) # -1


(***************************************************************************)
(* Properties of the references in the header                              *)
(***************************************************************************)
\* The lines of the written header.
HeaderLines == SplitLines(SubSeq(file, 1, Index(file, contentStart)))

\* The index of the line that opens the key, 0 when there is none.
KeyLine(lines, key) ==
    IF \E i \in 1..Len(lines) : HasPrefix(lines[i], <<key>>)
    THEN CHOOSE i \in 1..Len(lines) : HasPrefix(lines[i], <<key>>)
    ELSE 0

\* The indices of the lines nested under the line at index at.
Nested(lines, at) ==
    {i \in (at + 1)..Len(lines) : \A j \in (at + 1)..i : HasPrefix(lines[j], <<SP>>)}

\* The lines that open the entries of the list under the line at index at.
EntryLines(lines, at) ==
    {i \in Nested(lines, at) : HasPrefix(lines[i], <<SP, SP, SP, SP, "-">>)}

\* The lines of the entry that opens at line i of the list under line at.
Entry(lines, at, i) ==
    {j \in Nested(lines, at) : j >= i /\ \A m \in EntryLines(lines, at) : m <= i \/ m > j}

\* One of the lines at the given indices ends with the key and the value.
Holds(lines, at, key, value) ==
    \E i \in at : \E o \in Occurrences(lines[i], <<key, SP>> \o value) :
        o + 2 + Len(value) = Len(lines[i])

HasKey(lines, at, key) ==
    \E i \in at : \E k \in 1..Len(lines[i]) : lines[i][k] = key

\* The reference written on the given lines carries the owner and the repo
\* of ref when ref is in another repository than the item and neither key
\* when it is in the same.
Minimized(lines, at, ref) ==
    /\ Holds(lines, at, "number:", <<ToString(ref.Number)>>)
    /\ IF ref.Owner # remote.Owner \/ ref.Repo # remote.Repo
       THEN Holds(lines, at, "owner:", ref.Owner) /\ Holds(lines, at, "repo:", ref.Repo)
       ELSE ~ HasKey(lines, at, "owner:") /\ ~ HasKey(lines, at, "repo:")

\* C20: the header written for an issue holds, for its parent and for each
\* of its children, the owner and the repo of the referenced issue if and
\* only if its owner or its repo differs from the issue's own.
C20_CrossRepoReferences ==
    (pc.at = "written" /\ remote.Kind = ItemTypeIssue) =>
        \E lines \in {HeaderLines} :
        \E p \in {KeyLine(lines, "parent:")} :
        \E c \in {KeyLine(lines, "children:")} :
            /\ (p # 0) = (Len(remote.Parent) > 0)
            /\ Len(remote.Parent) > 0 =>
                  Minimized(lines, Nested(lines, p), remote.Parent[1])
            /\ (c # 0) = (Len(remote.Children) > 0)
            /\ Len(remote.Children) > 0 =>
                  \E entries \in {EntryLines(lines, c)} :
                      /\ Cardinality(entries) = Len(remote.Children)
                      /\ \A k \in 1..Len(remote.Children) :
                            \E i \in entries :
                                /\ Cardinality({m \in entries : m <= i}) = k
                                /\ Minimized(lines, Entry(lines, c, i), remote.Children[k])

\* An issue of o/r whose parent is in o/s, whose first child is in o/r and
\* whose second child is in p/r.
C20_Witness ==
    /\ pc.at = "written"
    /\ remote.Owner = <<"o">> /\ remote.Repo = <<"r">>
    /\ Len(remote.Parent) = 1
    /\ remote.Parent[1].Owner = <<"o">> /\ remote.Parent[1].Repo = <<"s">>
    /\ Len(remote.Children) = 2
    /\ remote.Children[1].Owner = <<"o">> /\ remote.Children[1].Repo = <<"r">>
    /\ remote.Children[2].Owner = <<"p">> /\ remote.Children[2].Repo = <<"r">>
    /\ Index(file, <<"owner:", SP, "o", NL>>) # -1
    /\ Index(file, <<"owner:", SP, "p", NL>>) # -1


(***************************************************************************)
(* Properties of review threads                                            *)
(***************************************************************************)
\* The IDs of the review threads of the item and of the comments in them.
ReviewIDs ==
    ThreadIDs(remote)
    \cup UNION {{remote.ReviewThreads[t].Comments[k].ID :
                    k \in 1..Len(remote.ReviewThreads[t].Comments)} :
                t \in 1..Len(remote.ReviewThreads)}

\* The reply placeholder of thread T1 was filled in the file.
ThreadReplyFilled ==
    Index(file, <<"<!-- gh-md:new-comment", SP, "reply_to:", SP, "T1", SP, ARROW,
                  NL, "new", NL>>) # -1

\* A review comment was rewritten in the file.
ReviewCommentEdited ==
    Index(file, <<NL, NL, "edit", NL, "<!-- /gh-md:review-comment">>) # -1

\* C21: no parsed comment, no edited-comment entry and no update mutation
\* carries the ID of a review thread or of a review comment; while a run
\* works on a file, the comments it parsed for thread T1 are exactly the
\* filled reply placeholder of T1, with empty ID.
C21_ReviewReadOnly ==
    /\ \A k \in 1..Len(parsed.Comments) : parsed.Comments[k].ID \notin ReviewIDs
    /\ \A k \in 1..Len(plan.editedComments) : plan.editedComments[k].ID \notin ReviewIDs
    /\ \A k \in 1..Len(log) :
          log[k].call.op \in EditOps => log[k].call.target \notin ReviewIDs
    /\ pc # Idle =>
          {parsed.Comments[k] : k \in {j \in 1..Len(parsed.Comments) :
                                          parsed.Comments[j].ParentID = <<"T1">>}}
          = IF ThreadReplyFilled
            THEN {[ID |-> <<>>, Author |-> <<>>, Body |-> <<"new">>, ParentID |-> <<"T1">>]}
            ELSE {}

\* A run that has sent the reply typed into the thread's placeholder, on a
\* file in which a review comment was rewritten.
C21_Witness ==
    /\ pc.at = "repull"
    /\ ReviewCommentEdited
    /\ ThreadReplyFilled
    /\ \E k \in 1..Len(log) :
          /\ log[k].ok
          /\ log[k].call.op = "AddReviewThreadReply"
          /\ log[k].call.target = <<"T1">>


(***************************************************************************)
(* Properties of dry runs                                                  *)
(***************************************************************************)
\* C22: a run with --dry-run sends no mutation and leaves the file as it is,
\* whatever it planned: it ends at the latest after the plan is built; and a
\* dry run that got as far as the conflict check on a file older than the
\* remote item, without --force, ends with the conflict error.
C22_DryRun ==
    /\ [](flags.dryRun =>
            /\ log = <<>>
            /\ pc.at \in {"idle", "comments"}
            /\ pc = Idle => outcome \in {"parse error", "no item type", "fetch error",
                                         "conflict", "dry run"}
            /\ (pc = Idle /\ LateUnforced) => outcome \in {"fetch error", "conflict"}
            /\ (pc = Idle /\ outcome = "conflict") => plan = NoPlan)
    /\ [][flags'.dryRun =>
            /\ file' = file
            /\ remote' # remote => budget'.changes # budget.changes]_vars

\* A dry run on an edited file that planned a new comment and sent nothing.
C22_Witness ==
    /\ flags.dryRun
    /\ outcome = "dry run"
    /\ Len(plan.newComments) > 0
    /\ plan.titleBodyChanged
    /\ log = <<>>


(***************************************************************************)
(* Properties of the batch scan                                            *)
(***************************************************************************)
\* The entry is an .md file that can be read and parsed: its header is
\* whole and every comment block in it closes its metadata.
Parseable(e) ==
    /\ ~ e.isDir /\ ~ e.walkErr /\ e.md /\ e.readable
    /\ ~ BadHeader(e.text)
    /\ \A o \in Occurrences(e.text, commentStart) :
          Index(SliceFrom(e.text, o), <<NL, ARROW, NL>>)
             < Index(SliceFrom(e.text, o), commentEnd)

\* The entry passes the repo filter: no filter, or the file's repository.
PassesFilter(e) ==
    \/ layout.filter = <<>>
    \/ \E w \in {<<"o", "r">>, <<"p", "s">>} :
          /\ layout.filter = <<w[1], "/", w[2]>>
          /\ Index(e.text, <<"owner:", SP, w[1], NL, "repo:", SP, w[2], NL>>) # -1

\* The entries the callback is due for, among the first n.
Due(n) ==
    {i \in 1..n : Parseable(layout.entries[i]) /\ PassesFilter(layout.entries[i])}

\* C23: a scan ends after its last entry or at the first error of the
\* callback, never because of a file; when it has ended, the callback was
\* invoked, in order, for exactly the parseable .md files that pass the
\* filter, up to the entry where it returned its error.
C23_SkipAndContinue ==
    pc = Idle =>
        /\ outcome \in {"walked", "callback error"}
        /\ \A k \in 1..Len(log) : log[k].ok = (k < Len(log) \/ outcome = "walked")
        /\ {log[k].call.entry : k \in 1..Len(log)}
              = Due(IF outcome = "walked" THEN Len(layout.entries)
                    ELSE log[Len(log)].call.entry)
        /\ \A k \in 1..(Len(log) - 1) : log[k].call.entry < log[k + 1].call.entry


(***************************************************************************)
(* Properties of the batch pull                                            *)
(***************************************************************************)
\* The batch ran: the repositories were discovered and the client was made.
BatchRan ==
    /\ pc = Idle
    /\ outcome \notin {"", "failed to discover repositories", "no managed repositories",
                       "no client"}

\* C24: the repositories are pulled one after the other in their order; a
\* batch that ran has attempted every repository once, whichever failed, and
\* returns an error exactly when a repository failed, the error giving the
\* number of repositories that failed.
C24_PullAllContinues ==
    /\ \A k \in 1..Len(log) :
          log[k].call.entry = k /\ log[k].call.slug = layout.repos[k]
    /\ BatchRan =>
          /\ Len(log) = Len(layout.repos)
          /\ (outcome = "pulled all") = (\A k \in 1..Len(log) : log[k].ok)
          /\ outcome # "pulled all" =>
                outcome = ToString(Cardinality({k \in 1..Len(log) : ~ log[k].ok}))
                          \o " repositories failed to update"

\* Three repositories of which the first and the third failed.
C24_Witness ==
    /\ BatchRan
    /\ Len(layout.repos) = 3
    /\ ~ log[1].ok /\ log[2].ok /\ ~ log[3].ok
    /\ outcome = "2 repositories failed to update"


(***************************************************************************)
(* Properties of repeated pushes                                           *)
(***************************************************************************)
\* The number of comments among cs that were typed into a placeholder.
NewUnder(cs) == Cardinality({k \in 1..Len(cs) : cs[k].Body = <<"new">>})

\* The file still holds a filled placeholder.
StillFilled == Index(file, <<ARROW, NL, "new", NL>> \o newCommentEnd) # -1

\* C25: when no push is forced, the remote item never holds more comments
\* typed into the placeholder of one target (the item, a discussion comment,
\* a review thread) than the user has typed there, one per sitting in the
\* editor: no new comment is created twice.
C25_CreatedAtMostOnce ==
    /\ NewUnder(remote.Comments) <= budget.edits
    /\ \A k \in 1..Len(remote.Comments) :
          NewUnder(remote.Comments[k].Replies) <= budget.edits
    /\ \A t \in 1..Len(remote.ReviewThreads) :
          NewUnder(remote.ReviewThreads[t].Comments) <= budget.edits

\* The first push created the comment and could not re-pull; the second
\* push of the same file, placeholder still filled, ended as a conflict.
C25_Witness ==
    /\ budget.runs = 2
    /\ pc = Idle
    /\ outcome = "conflict"
    /\ StillFilled
    /\ NewUnder(remote.Comments) = 1


(***************************************************************************)
(* Properties of a push that follows a pull                                *)
(***************************************************************************)
\* C26: the push of a file that was just pulled, not edited, from an item
\* that has not changed, plans no state transition, no new comment and no
\* edited comment, and so sends no creation and no update of a comment.
C26_NothingFromRemoteText ==
    /\ plan.stateChange = ""
    /\ plan.newComments = <<>>
    /\ plan.editedComments = <<>>
    /\ \A k \in 1..Len(log) : log[k].call.op \notin NewOps \cup EditOps \cup StateOps


\* The comment the loop of assignParentIDs has just processed.
JustProcessed == layout.cwds[pc.i - 1]

\* The comment at position j was recorded before a later comment, ahead of
\* position k, that has an ID and stands at a shallower depth.
Superseded(j, k) ==
    \E m \in (j + 1)..(k - 1) :
        /\ layout.cwds[m].comment.ID # <<>>
        /\ layout.cwds[m].depth < layout.cwds[j].depth

\* C27: every time assignParentIDs has processed a comment with a non-empty
\* ID at depth d, the depth table holds that ID at d and holds no entry at any
\* depth greater than d, whatever the depth; and no comment inherits as
\* ParentID a comment recorded before a more recent comment of shallower depth.
C27_DeeperCleared ==
    /\ (pc.at = "assign" /\ pc.i > 1 /\ JustProcessed.comment.ID # <<>>) =>
          /\ JustProcessed.depth \in DOMAIN pc.depthStack
          /\ pc.depthStack[JustProcessed.depth] = JustProcessed.comment.ID
          /\ \A d \in DOMAIN pc.depthStack : d <= JustProcessed.depth
    /\ pc.at \in {"assign", "idle"} =>
          \A k \in 1..Len(parsed.Comments) :
              (/\ layout.cwds[k].depth > 0
               /\ layout.cwds[k].comment.ParentID = <<>>
               /\ parsed.Comments[k].ParentID # <<>>) =>
                  \E j \in 1..(k - 1) :
                      /\ layout.cwds[j].comment.ID = parsed.Comments[k].ParentID
                      /\ ~ Superseded(j, k)


\* C28: the parsed comments follow the position of their blocks in the text,
\* existing comments and filled placeholders interleaved: what comes from an
\* earlier block stands before what comes from a later one.
C28_TextOrder ==
    (pc.at = "parsed" /\ outcome = "parsed") =>
        \A j \in DOMAIN Blocks : \A k \in DOMAIN Blocks :
            j < k => \A a \in ParsedFrom(j) : \A b \in ParsedFrom(k) : a < b


(***************************************************************************)
(* Properties of executeChanges                                            *)
(***************************************************************************)
\* The creation calls a run has made so far, in order.
CreationCalls == SelectSeq(log, LAMBDA e : e.call.op \in NewOps)

\* A parsed comment with an ID that the fetched comment list does not hold.
Unfetched(c) == c.ID # <<>> /\ ~ RemoteHas(PlanRemoteComments, c.ID)

\* C29: a parsed comment whose non-empty ID is not in the fetched remote
\* list has no plan entry, neither new nor edited; no call is made for it,
\* nothing is created in its place, and a run that fails fails on a call made
\* for something else.
C29_UnknownIDSkipped ==
    pc.at # "input" =>
        \A k \in DOMAIN parsed.Comments :
            Unfetched(parsed.Comments[k]) =>
                /\ \A i \in DOMAIN plan.newComments :
                      plan.newComments[i].ID # parsed.Comments[k].ID
                /\ \A i \in DOMAIN plan.editedComments :
                      plan.editedComments[i].ID # parsed.Comments[k].ID
                /\ \A j \in DOMAIN log : log[j].call.target # parsed.Comments[k].ID
                /\ Len(CreationCalls)
                      <= Cardinality({i \in DOMAIN parsed.Comments :
                                         parsed.Comments[i].ID = <<>>})
                /\ (pc = Idle /\ outcome # "executed") =>
                      /\ outcome = "push error"
                      /\ log # <<>>
                      /\ ~ log[Len(log)].ok

\* A run goes through with a rewritten comment C1 and a rewritten comment
\* that GitHub no longer has: only C1 is updated.
C29_Witness ==
    /\ pc = Idle /\ outcome = "executed"
    /\ Len(parsed.Comments) = 2
    /\ parsed.Comments[1].ID = <<"X9">> /\ parsed.Comments[1].Body = <<"edit">>
    /\ parsed.Comments[2].ID = <<"C1">> /\ parsed.Comments[2].Body = <<"edit">>
    /\ Len(log) = 2
    /\ log[2].call.op \in EditOps /\ log[2].call.target = <<"C1">> /\ log[2].ok

\* The call a new comment is to be sent with.
Routed(call, c) ==
    /\ call.body = c.Body
    /\ CASE parsed.ItemType = ItemTypeDiscussion /\ c.ParentID # <<>> ->
                call.op = "AddDiscussionCommentReply" /\ call.target = c.ParentID
         [] parsed.ItemType = ItemTypeDiscussion /\ c.ParentID = <<>> ->
                call.op = "AddDiscussionComment" /\ call.target = parsed.ID
         [] parsed.ItemType = ItemTypePullRequest /\ c.ParentID # <<>> ->
                call.op = "AddReviewThreadReply" /\ call.target = c.ParentID
         [] parsed.ItemType = ItemTypePullRequest /\ c.ParentID = <<>> ->
                call.op = "AddComment" /\ call.target = parsed.ID
         [] parsed.ItemType = ItemTypeIssue ->
                call.op = "AddComment" /\ call.target = parsed.ID

=============================================================================
